---- MODULE Spec2Model ----
(***************************************************************************)
(* Model of the group-scoped permission synchronisation and membership     *)
(* lifecycle engine of QuotesManager/appwrite/functions/qm-api/index.js.   *)
(*                                                                         *)
(* The document store is five collections of documents keyed by id.  Every *)
(* document carries its ACL in the field `permissions` ($permissions), an  *)
(* array of permission entries in the order the code built it.             *)
(***************************************************************************)
EXTENDS Integers, Sequences, FiniteSets, TLC

(***************************************************************************)
(* Bounds of the model.                                                    *)
(***************************************************************************)
MaxGroups == 1
MaxMemberships == 3
MaxPeople == 4
MaxQuotes == 1
MaxInvites == 2
MaxCalls == 1

Users == {"u1", "u2", "u3"}
NoUser == ""
AnyUser == "users"
Roles == {"owner", "admin", "member"}
Codes == {"ABC23XYZ", "QRS45TUV"}
Procs == {1, 2}

GroupIds == 1..MaxGroups
MembershipIds == 1..MaxMemberships
PersonIds == 1..MaxPeople
QuoteIds == 1..MaxQuotes
InviteIds == 1..MaxInvites

\* The display name a client sends is the account name of the user
\* (AppShell.tsx:75); two users share a name so that ties occur.
DisplayNameOf(u) == CASE u = "u1" -> "Bob" [] u = "u2" -> "Ann" [] OTHER -> "Bob"
NameRank(n) == CASE n = "" -> 0 [] n = "Ann" -> 1 [] n = "Bob" -> 2 [] OTHER -> 3

\* groups .. invites: the five collections; nextId: the ids ID.unique() has
\* not handed out yet; result: how the last request ended; writes: the ACL
\* updates the last syncGroupPermissions request issued (empty after any
\* other request); calls: the requests in flight, one slot per connection.
VARIABLES groups, memberships, people, quotes, invites, nextId,
          result, writes, calls

vars == <<groups, memberships, people, quotes, invites, nextId,
          result, writes, calls>>

Range(s) == {s[i] : i \in 1..Len(s)}

(***************************************************************************)
(* Permission policy (index.js:32-81).                                     *)
(***************************************************************************)
RECURSIVE uniqueAcc(_, _)
uniqueAcc(values, acc) ==
  IF values = <<>> THEN acc
  ELSE uniqueAcc(Tail(values),
                 IF Head(values) = NoUser \/ Head(values) \in Range(acc)
                 THEN acc ELSE Append(acc, Head(values)))

unique(values) == uniqueAcc(values, <<>>)

buildPermissions(action, userIds) ==
  LET ids == unique(userIds)
  IN [i \in 1..Len(ids) |-> [action |-> action, role |-> ids[i]]]

buildReadPermissions(userIds) == buildPermissions("read", userIds)
buildUpdatePermissions(userIds) == buildPermissions("update", userIds)
buildDeletePermissions(userIds) == buildPermissions("delete", userIds)

mergePermissions(a, b, c) == a \o b \o c

\* Array.from(new Set(p)).sort(): the duplicate-free sorted array is the
\* canonical form of the set of entries.
normalizePermissions(permissionList) == Range(permissionList)

\* Variant: the arrays compared as they are, without normalizePermissions.
permissionsEqual_bySequence(a, b) == a = b

permissionsEqual(a, b) == normalizePermissions(a) = normalizePermissions(b)

groupPermissions(memberIds, adminIds, ownerId) ==
  mergePermissions(buildReadPermissions(memberIds),
                   buildUpdatePermissions(adminIds),
                   buildDeletePermissions(<<ownerId>>))

\* Variant: the Membership's own user left out of update and delete.
membershipPermissions_adminsOnly(memberIds, adminIds, membershipUserId) ==
  mergePermissions(buildReadPermissions(memberIds),
                   buildUpdatePermissions(adminIds),
                   buildDeletePermissions(adminIds))

membershipPermissions(memberIds, adminIds, membershipUserId) ==
  mergePermissions(buildReadPermissions(memberIds),
                   buildUpdatePermissions(unique(Append(adminIds, membershipUserId))),
                   buildDeletePermissions(unique(Append(adminIds, membershipUserId))))

\* Variant: delete granted to the members whatever isPlaceholder says.
personPermissions_deleteByMembers(memberIds, adminIds, isPlaceholder) ==
  mergePermissions(buildReadPermissions(memberIds),
                   buildUpdatePermissions(memberIds),
                   buildDeletePermissions(memberIds))

personPermissions(memberIds, adminIds, isPlaceholder) ==
  mergePermissions(buildReadPermissions(memberIds),
                   buildUpdatePermissions(memberIds),
                   buildDeletePermissions(IF isPlaceholder THEN memberIds ELSE adminIds))

\* Variant: delete granted to the members, as update is.
quotePermissions_deleteByMembers(memberIds, adminIds) ==
  mergePermissions(buildReadPermissions(memberIds),
                   buildUpdatePermissions(memberIds),
                   buildDeletePermissions(memberIds))

quotePermissions(memberIds, adminIds) ==
  mergePermissions(buildReadPermissions(memberIds),
                   buildUpdatePermissions(memberIds),
                   buildDeletePermissions(adminIds))

\* Variant: update granted to any authenticated user, as read is.
invitePermissions_updateByAnyUser(adminIds) ==
  mergePermissions(<<[action |-> "read", role |-> AnyUser]>>,
                   <<[action |-> "update", role |-> AnyUser]>>,
                   buildDeletePermissions(adminIds))

invitePermissions(adminIds) ==
  mergePermissions(<<[action |-> "read", role |-> AnyUser]>>,
                   buildUpdatePermissions(adminIds),
                   buildDeletePermissions(adminIds))

(***************************************************************************)
(* The document store, passed around as one value while a handler runs.    *)
(***************************************************************************)
Store ==
  [groups |-> groups, memberships |-> memberships, people |-> people,
   quotes |-> quotes, invites |-> invites]

\* Keys of S in ascending order: the store's default order of a listing.
RECURSIVE ascending(_)
ascending(S) ==
  IF S = {} THEN <<>>
  ELSE LET least == CHOOSE x \in S : \A y \in S : x <= y
       IN <<least>> \o ascending(S \ {least})

\* Members of a group ordered by displayName ascending (Query.orderAsc);
\* equal names keep the store's default order.
RECURSIVE orderedByDisplayName(_, _)
orderedByDisplayName(st, S) ==
  IF S = {} THEN <<>>
  ELSE LET first == CHOOSE x \in S : \A y \in S :
                      \/ NameRank(st.memberships[x].displayName)
                           < NameRank(st.memberships[y].displayName)
                      \/ /\ st.memberships[x].displayName = st.memberships[y].displayName
                         /\ x <= y
       IN <<first>> \o orderedByDisplayName(st, S \ {first})

listGroupMembers(st, groupId) ==
  orderedByDisplayName(st,
    {m \in DOMAIN st.memberships : st.memberships[m].groupId = groupId})

\* listDocuments with Query.limit(1): the first match, 0 when there is none.
getMembershipByUser(st, groupId, userId) ==
  LET found == {m \in DOMAIN st.memberships :
                  /\ st.memberships[m].groupId = groupId
                  /\ st.memberships[m].userId = userId}
  IN IF found = {} THEN 0 ELSE ascending(found)[1]

ensureAdmin(st, membershipId) ==
  /\ membershipId # 0
  /\ st.memberships[membershipId].role \in {"owner", "admin"}

ensureOwner(st, membershipId) ==
  /\ membershipId # 0
  /\ st.memberships[membershipId].role = "owner"

(***************************************************************************)
(* ACL reconciler (index.js:208-304).                                      *)
(***************************************************************************)
memberIdsOf(st, roster) ==
  [i \in 1..Len(roster) |-> st.memberships[roster[i]].userId]

adminIdsOf(st, roster) ==
  memberIdsOf(st, SelectSeq(roster, LAMBDA m : st.memberships[m].role # "member"))

ownerIdOf(st, roster) ==
  LET owners == SelectSeq(roster, LAMBDA m : st.memberships[m].role = "owner")
      adminIds == adminIdsOf(st, roster)
  IN IF owners # <<>> THEN st.memberships[owners[1]].userId
     ELSE IF adminIds # <<>> THEN adminIds[1] ELSE NoUser

\* Variant: the policy entries added to the ACL found on the document.
updatePermissions_append(doc, desired) ==
  [doc EXCEPT !.permissions = doc.permissions \o desired]

\* databases.updateDocument(..., id, {}, desired): replaces the ACL.
updatePermissions(doc, desired) == [doc EXCEPT !.permissions = desired]

\* Variant: no document is ever found to differ from the policy.
needsUpdate_never(doc, desired) == FALSE

needsUpdate(doc, desired) == ~permissionsEqual(doc.permissions, desired)

\* The documents a reconcile of groupId visits, as <<collection, id>>.
groupDocuments(st, groupId) ==
  {<<"groups", groupId>>}
    \cup {<<"memberships", m>> : m \in {x \in DOMAIN st.memberships :
                                          st.memberships[x].groupId = groupId}}
    \cup {<<"people", p>> : p \in {x \in DOMAIN st.people :
                                     st.people[x].groupId = groupId}}
    \cup {<<"quotes", q>> : q \in {x \in DOMAIN st.quotes :
                                     st.quotes[x].groupId = groupId}}
    \cup {<<"invites", i>> : i \in {x \in DOMAIN st.invites :
                                      st.invites[x].groupId = groupId}}

\* Variant: the policy takes every Person for a member's Person.
desiredPermissions_personsOfMembers(st, kind, id, memberIds, adminIds, ownerId) ==
  CASE kind = "groups" -> groupPermissions(memberIds, adminIds, ownerId)
    [] kind = "memberships" ->
         membershipPermissions(memberIds, adminIds, st.memberships[id].userId)
    [] kind = "people" -> personPermissions(memberIds, adminIds, FALSE)
    [] kind = "quotes" -> quotePermissions(memberIds, adminIds)
    [] OTHER -> invitePermissions(adminIds)

\* The policy ACL of document <<kind, id>> for a roster (index.js:228, 240,
\* 257, 274, 291).
desiredPermissions(st, kind, id, memberIds, adminIds, ownerId) ==
  CASE kind = "groups" -> groupPermissions(memberIds, adminIds, ownerId)
    [] kind = "memberships" ->
         membershipPermissions(memberIds, adminIds, st.memberships[id].userId)
    [] kind = "people" ->
         personPermissions(memberIds, adminIds, st.people[id].isPlaceholder)
    [] kind = "quotes" -> quotePermissions(memberIds, adminIds)
    [] OTHER -> invitePermissions(adminIds)

syncGroupPermissionsInternal(st, groupId, actorId, enforceAdmin) ==
  IF enforceAdmin /\ ~ensureAdmin(st, getMembershipByUser(st, groupId, actorId))
  THEN [ok |-> FALSE, st |-> st, writes |-> {}]
  ELSE IF groupId \notin DOMAIN st.groups
  THEN [ok |-> FALSE, st |-> st, writes |-> {}]
  ELSE
    LET roster == listGroupMembers(st, groupId)
        memberIds == memberIdsOf(st, roster)
        adminIds == adminIdsOf(st, roster)
        ownerId == ownerIdOf(st, roster)
        desired(kind, id) ==
          desiredPermissions(st, kind, id, memberIds, adminIds, ownerId)
        stale == {d \in groupDocuments(st, groupId) :
                    needsUpdate(st[d[1]][d[2]], desired(d[1], d[2]))}
        synced(kind) ==
          [x \in DOMAIN st[kind] |->
             IF <<kind, x>> \in stale
             THEN updatePermissions(st[kind][x], desired(kind, x))
             ELSE st[kind][x]]
    IN [ok |-> TRUE,
        st |-> [groups |-> synced("groups"),
                memberships |-> synced("memberships"),
                people |-> synced("people"),
                quotes |-> synced("quotes"),
                invites |-> synced("invites")],
        writes |-> stale]

(***************************************************************************)
(* Document writes.                                                        *)
(***************************************************************************)
createDocument(coll, id, doc) == coll @@ (id :> doc)

deleteDocument(coll, id) == [x \in DOMAIN coll \ {id} |-> coll[x]]

bump(ids, kind) == [ids EXCEPT ![kind] = @ + 1]

Commit(st, ids, res, written) ==
  /\ nextId' = ids
  /\ result' = res
  /\ writes' = written
  /\ groups' = st.groups
  /\ memberships' = st.memberships
  /\ people' = st.people
  /\ quotes' = st.quotes
  /\ invites' = st.invites

\* The end of a handler whose last call is the reconciler: what the handler
\* and the reconciler wrote stays, and the request fails when the reconciler
\* threw.
CommitSynced(sync, ids, reported) ==
  Commit(sync.st, ids, IF sync.ok THEN "ok" ELSE "error",
         IF reported THEN sync.writes ELSE {})

\* A handler that throws before its first write.
Reject == Commit(Store, nextId, "error", {})

(***************************************************************************)
(* Invite code generator (index.js:83-132).  draws[i] is the code that     *)
(* randomInviteCode returns at attempt i.                                  *)
(***************************************************************************)
maxAttempts == 5

codeExists(coll, code) == \E i \in DOMAIN coll : coll[i].code = code

createInviteDocument(coll, id, groupId, adminIds, draws) ==
  LET free == {a \in 1..maxAttempts : ~codeExists(coll, draws[a])}
      attempt == CHOOSE a \in free : \A b \in free : a <= b
  IN IF free = {}
     THEN [ok |-> FALSE, invites |-> coll, attempts |-> maxAttempts]
     ELSE [ok |-> TRUE,
           invites |-> createDocument(coll, id,
                         [groupId |-> groupId, name |-> "General", code |-> draws[attempt],
                          permissions |-> invitePermissions(adminIds)]),
           attempts |-> attempt]

\* Every result the random draws of one call can produce.
inviteOutcomes(coll, id, groupId, adminIds) ==
  {createInviteDocument(coll, id, groupId, adminIds, draws) :
     draws \in [1..maxAttempts -> Codes]}

(***************************************************************************)
(* createGroupWithOwner (index.js:326-387).                                *)
(***************************************************************************)
CreateGroupWithOwner(actorId) ==
  /\ nextId.groups <= MaxGroups
  /\ nextId.people <= MaxPeople
  /\ nextId.memberships <= MaxMemberships
  /\ nextId.invites <= MaxInvites
  /\ \E made \in inviteOutcomes(invites, nextId.invites, nextId.groups, <<actorId>>) :
     LET groupId == nextId.groups
         personId == nextId.people
         memberIds == <<actorId>>
         adminIds == <<actorId>>
         st == [groups |-> createDocument(groups, groupId,
                             [ownerId |-> actorId,
                              permissions |-> groupPermissions(memberIds, adminIds, actorId)]),
                people |-> createDocument(people, personId,
                             [groupId |-> groupId, name |-> DisplayNameOf(actorId),
                              userId |-> actorId, isPlaceholder |-> FALSE,
                              permissions |-> personPermissions(memberIds, adminIds, FALSE)]),
                memberships |-> createDocument(memberships, nextId.memberships,
                             [groupId |-> groupId, userId |-> actorId, role |-> "owner",
                              displayName |-> DisplayNameOf(actorId), personId |-> personId,
                              claimedPlaceholderId |-> 0, claimedPlaceholderName |-> "",
                              permissions |-> membershipPermissions(memberIds, adminIds, actorId)]),
                quotes |-> quotes,
                invites |-> made.invites]
         ids == bump(bump(bump(nextId, "groups"), "people"), "memberships")
     IN Commit(st, IF made.ok THEN bump(ids, "invites") ELSE ids,
               IF made.ok THEN "ok" ELSE "error", {})
  /\ UNCHANGED calls

(***************************************************************************)
(* joinGroupByCode (index.js:464-541).                                     *)
(***************************************************************************)
\* String(code).trim().toUpperCase() on the codes a client may type.
toUpperCase(text) ==
  CASE text = "abc23xyz" -> "ABC23XYZ"
    [] text = "qrs45tuv" -> "QRS45TUV"
    [] OTHER -> text

TypedCodes == Codes \cup {"abc23xyz", "NOSUCH22"}

\* Variant: the lookup of the caller's Membership finds nothing.
joinExisting_skipped(st, groupId, actorId) == 0

\* The Membership a repeated join returns (index.js:484-499); 0 when the
\* caller has none in the group.
joinExisting(st, groupId, actorId) == getMembershipByUser(st, groupId, actorId)

\* The invite a typed code resolves to (index.js:465-478); 0 when none.
joinInvite(st, typed) ==
  LET matching == {i \in DOMAIN st.invites : st.invites[i].code = toUpperCase(typed)}
  IN IF matching = {} THEN 0 ELSE ascending(matching)[1]

\* Variant: the reconcile of a join checks that the caller is an admin.
joinEnforceAdmin_checked == TRUE

\* enforceAdmin as joinGroupByCode passes it to the reconciler (index.js:538).
joinEnforceAdmin == FALSE

\* String.prototype.trim on the names a client may send: a name made of
\* blanks becomes the empty string.
trim(text) == IF text = " " THEN "" ELSE text

\* index.js:466: String(payload.displayName || "Member").trim().
joinDisplayName(sent) == trim(IF sent = "" THEN "Member" ELSE sent)

\* The Person and the Membership a join creates (index.js:505-536), with
\* the ACLs built from the roster read at index.js:501-503.
joinCreate(st, ids, groupId, actorId, displayName) ==
  LET roster == listGroupMembers(st, groupId)
      memberIds == unique(Append(memberIdsOf(st, roster), actorId))
      adminIds == adminIdsOf(st, roster)
      personId == ids.people
  IN [st EXCEPT
        !.people = createDocument(@, personId,
           [groupId |-> groupId, name |-> displayName,
            userId |-> actorId, isPlaceholder |-> FALSE,
            permissions |-> personPermissions(memberIds, adminIds, FALSE)]),
        !.memberships = createDocument(@, ids.memberships,
           [groupId |-> groupId, userId |-> actorId, role |-> "member",
            displayName |-> displayName, personId |-> personId,
            claimedPlaceholderId |-> 0, claimedPlaceholderName |-> "",
            permissions |-> membershipPermissions(memberIds, adminIds, actorId)])]

JoinGroupByCodeAs(actorId, typed, sent) ==
  LET code == toUpperCase(typed)
      displayName == joinDisplayName(sent)
      matching == {i \in DOMAIN invites : invites[i].code = code}
  IN
  /\ UNCHANGED calls
  /\ IF matching = {} THEN Reject
     ELSE
       LET invite == invites[ascending(matching)[1]]
           groupId == invite.groupId
           existingMembership == joinExisting(Store, groupId, actorId)
       IN IF existingMembership # 0 THEN Commit(Store, nextId, "ok", {})
          ELSE
            /\ nextId.people <= MaxPeople
            /\ nextId.memberships <= MaxMemberships
            /\ CommitSynced(syncGroupPermissionsInternal(
                              joinCreate(Store, nextId, groupId, actorId, displayName),
                              groupId, actorId, joinEnforceAdmin),
                            bump(bump(nextId, "people"), "memberships"), FALSE)

\* The join the client issues: it sends the user's account name
\* (AppShell.tsx:75).
JoinGroupByCode(actorId, typed) == JoinGroupByCodeAs(actorId, typed, DisplayNameOf(actorId))

(***************************************************************************)
(* createPlaceholderPerson (index.js:543-571), createQuote (573-608).      *)
(***************************************************************************)
PlaceholderNames == {"Cat"}

CreatePlaceholderPerson(actorId, groupId, name) ==
  /\ UNCHANGED calls
  /\ IF getMembershipByUser(Store, groupId, actorId) = 0 THEN Reject
     ELSE
       /\ nextId.people <= MaxPeople
       /\ LET roster == listGroupMembers(Store, groupId)
              memberIds == memberIdsOf(Store, roster)
              adminIds == adminIdsOf(Store, roster)
          IN Commit([Store EXCEPT !.people = createDocument(@, nextId.people,
                        [groupId |-> groupId, name |-> name, userId |-> NoUser,
                         isPlaceholder |-> TRUE,
                         permissions |-> personPermissions(memberIds, adminIds, TRUE)])],
                    bump(nextId, "people"), "ok", {})

CreateQuote(actorId, groupId, personId) ==
  /\ UNCHANGED calls
  /\ IF \/ getMembershipByUser(Store, groupId, actorId) = 0
        \/ personId \notin DOMAIN people
        \/ people[personId].groupId # groupId
     THEN Reject
     ELSE
       /\ nextId.quotes <= MaxQuotes
       /\ LET roster == listGroupMembers(Store, groupId)
              memberIds == memberIdsOf(Store, roster)
              adminIds == adminIdsOf(Store, roster)
          IN Commit([Store EXCEPT !.quotes = createDocument(@, nextId.quotes,
                        [groupId |-> groupId, personId |-> personId,
                         sourcePlaceholderId |-> 0,
                         permissions |-> quotePermissions(memberIds, adminIds)])],
                    bump(nextId, "quotes"), "ok", {})

(***************************************************************************)
(* updateMemberRole (index.js:735-776).                                    *)
(***************************************************************************)
\* Variant: the write of a role also names the Membership's user as the
\* owner of its group.
setRole_withOwnerId(st, membershipId, role) ==
  [st EXCEPT !.memberships[membershipId].role = role,
             !.groups[st.memberships[membershipId].groupId].ownerId =
                st.memberships[membershipId].userId]

setRole(st, membershipId, role) ==
  [st EXCEPT !.memberships[membershipId].role = role]

RequestedRoles == {"admin", "member", "owner"}

\* Variant: an admin may demote as well as promote.
updateMemberRoleAllowed_demoteByAdmin(st, actorId, groupId, membershipId, newRole) ==
  LET actorMembership == getMembershipByUser(st, groupId, actorId)
  IN /\ actorMembership # 0
     /\ membershipId \in DOMAIN st.memberships
     /\ st.memberships[membershipId].groupId = groupId
     /\ st.memberships[membershipId].role # "owner"
     /\ newRole \in {"admin", "member"}
     /\ st.memberships[actorMembership].role # "member"

updateMemberRoleAllowed(st, actorId, groupId, membershipId, newRole) ==
  LET actorMembership == getMembershipByUser(st, groupId, actorId)
  IN /\ actorMembership # 0
     /\ membershipId \in DOMAIN st.memberships
     /\ st.memberships[membershipId].groupId = groupId
     /\ st.memberships[membershipId].role # "owner"
     /\ \/ newRole = "admin" /\ st.memberships[actorMembership].role # "member"
        \/ newRole = "member" /\ st.memberships[actorMembership].role = "owner"

UpdateMemberRole(actorId, groupId, membershipId, newRole) ==
  /\ UNCHANGED calls
  /\ IF ~updateMemberRoleAllowed(Store, actorId, groupId, membershipId, newRole)
     THEN Reject
     ELSE CommitSynced(syncGroupPermissionsInternal(
                         setRole(Store, membershipId, newRole), groupId, actorId, TRUE),
                       nextId, FALSE)

(***************************************************************************)
(* transferOwnership (index.js:778-817).                                   *)
(***************************************************************************)
transferOwnershipAllowed(st, actorId, groupId, currentOwnerMembershipId, nextOwnerMembershipId) ==
  /\ ensureOwner(st, getMembershipByUser(st, groupId, actorId))
  /\ currentOwnerMembershipId \in DOMAIN st.memberships
  /\ nextOwnerMembershipId \in DOMAIN st.memberships
  /\ st.memberships[currentOwnerMembershipId].groupId = groupId
  /\ st.memberships[nextOwnerMembershipId].groupId = groupId

setOwnerId(st, groupId, userId) == [st EXCEPT !.groups[groupId].ownerId = userId]

TransferOwnership(actorId, groupId, currentOwnerMembershipId, nextOwnerMembershipId) ==
  /\ UNCHANGED calls
  /\ IF ~transferOwnershipAllowed(Store, actorId, groupId, currentOwnerMembershipId,
                                  nextOwnerMembershipId)
     THEN Reject
     ELSE LET st1 == setOwnerId(Store, groupId,
                                memberships[nextOwnerMembershipId].userId)
              st2 == setRole(st1, currentOwnerMembershipId, "admin")
              st3 == setRole(st2, nextOwnerMembershipId, "owner")
          IN CommitSynced(syncGroupPermissionsInternal(st3, groupId, actorId, TRUE),
                          nextId, FALSE)

(***************************************************************************)
(* removeMember (index.js:819-896).                                        *)
(***************************************************************************)
\* The membership the role checks and the Person clean-up are applied to
\* (index.js:829-837).
removeMemberTarget(st, actorMembership, membershipId) ==
  IF /\ st.memberships[actorMembership].role \notin {"owner", "admin"}
     /\ st.memberships[membershipId].userId # st.memberships[actorMembership].userId
  THEN actorMembership
  ELSE membershipId

removeMemberAllowed(st, actorId, groupId, membershipId) ==
  LET actorMembership == getMembershipByUser(st, groupId, actorId)
  IN /\ actorMembership # 0
     /\ membershipId \in DOMAIN st.memberships
     /\ st.memberships[membershipId].groupId = groupId
     /\ LET target == st.memberships[removeMemberTarget(st, actorMembership, membershipId)]
            actor == st.memberships[actorMembership]
        IN IF actor.userId = target.userId
           THEN target.role # "owner"
           ELSE /\ ensureAdmin(st, actorMembership)
                /\ target.role # "owner"
                /\ ~(target.role = "admin" /\ actor.role # "owner")

\* index.js:854-886: the target's Person becomes a placeholder when a quote
\* of the group references it, and is deleted otherwise.
releasePerson(st, groupId, personId) ==
  IF personId = 0 \/ personId \notin DOMAIN st.people THEN st
  ELSE IF \E q \in DOMAIN st.quotes :
            st.quotes[q].groupId = groupId /\ st.quotes[q].personId = personId
  THEN [st EXCEPT !.people[personId].userId = NoUser,
                  !.people[personId].isPlaceholder = TRUE]
  ELSE [st EXCEPT !.people = deleteDocument(@, personId)]

\* Variant: the handler deletes no Membership.
removedMembershipId_none(target, membershipId) == 0

\* index.js:888-892: the document deleted is the one the payload names.
removedMembershipId(target, membershipId) == membershipId

RemoveMember(actorId, groupId, membershipId) ==
  /\ UNCHANGED calls
  /\ IF ~removeMemberAllowed(Store, actorId, groupId, membershipId) THEN Reject
     ELSE LET actorMembership == getMembershipByUser(Store, groupId, actorId)
              target == removeMemberTarget(Store, actorMembership, membershipId)
              isSelf == memberships[actorMembership].userId = memberships[target].userId
              st1 == releasePerson(Store, groupId, memberships[target].personId)
              st2 == [st1 EXCEPT !.memberships =
                        deleteDocument(@, removedMembershipId(target, membershipId))]
          IN CommitSynced(syncGroupPermissionsInternal(st2, groupId, actorId, ~isSelf),
                          nextId, FALSE)

(***************************************************************************)
(* syncGroupPermissions (index.js:306-312).                                *)
(***************************************************************************)
SyncGroupPermissions(actorId, groupId) ==
  /\ UNCHANGED calls
  /\ CommitSynced(syncGroupPermissionsInternal(Store, groupId, actorId, TRUE), nextId, TRUE)

(***************************************************************************)
(* createInvite (index.js:389-412), renameInvite (414-438), deleteInvite   *)
(* (440-462).                                                              *)
(***************************************************************************)
CreateInvite(actorId, groupId) ==
  /\ UNCHANGED calls
  /\ IF ~ensureAdmin(Store, getMembershipByUser(Store, groupId, actorId)) THEN Reject
     ELSE
       /\ nextId.invites <= MaxInvites
       /\ \E made \in inviteOutcomes(invites, nextId.invites, groupId,
                                     adminIdsOf(Store, listGroupMembers(Store, groupId))) :
            Commit([Store EXCEPT !.invites = made.invites],
                   IF made.ok THEN bump(nextId, "invites") ELSE nextId,
                   IF made.ok THEN "ok" ELSE "error", {})

\* String(payload.name).trim() of the names a client may send.
InviteNames == {"Party", ""}

RenameInvite(actorId, inviteId, name) ==
  /\ UNCHANGED calls
  /\ IF \/ name = ""
        \/ inviteId \notin DOMAIN invites
        \/ ~ensureAdmin(Store, getMembershipByUser(Store, invites[inviteId].groupId, actorId))
     THEN Reject
     ELSE Commit([Store EXCEPT !.invites[inviteId].name = name], nextId, "ok", {})

DeleteInvite(actorId, inviteId) ==
  /\ UNCHANGED calls
  /\ IF \/ inviteId \notin DOMAIN invites
        \/ ~ensureAdmin(Store, getMembershipByUser(Store, invites[inviteId].groupId, actorId))
     THEN Reject
     ELSE Commit([Store EXCEPT !.invites = deleteDocument(@, inviteId)], nextId, "ok", {})

(***************************************************************************)
(* deleteQuote (index.js:610-626), removePerson (898-952).                 *)
(***************************************************************************)
DeleteQuote(actorId, groupId, quoteId) ==
  /\ UNCHANGED calls
  /\ IF \/ ~ensureAdmin(Store, getMembershipByUser(Store, groupId, actorId))
        \/ quoteId \notin DOMAIN quotes
        \/ quotes[quoteId].groupId # groupId
     THEN Reject
     ELSE Commit([Store EXCEPT !.quotes = deleteDocument(@, quoteId)], nextId, "ok", {})

\* The quotes of a group that reference a Person (index.js:919-923, 929-934).
quotesOfPerson(st, groupId, personId) ==
  {q \in DOMAIN st.quotes :
     st.quotes[q].groupId = groupId /\ st.quotes[q].personId = personId}

RemovePerson(actorId, groupId, personId, force) ==
  /\ UNCHANGED calls
  /\ IF \/ ~ensureAdmin(Store, getMembershipByUser(Store, groupId, actorId))
        \/ personId \notin DOMAIN people
        \/ people[personId].groupId # groupId
        \/ ~people[personId].isPlaceholder
        \/ quotesOfPerson(Store, groupId, personId) # {} /\ ~force
     THEN Reject
     ELSE LET doomed == quotesOfPerson(Store, groupId, personId)
          IN Commit([Store EXCEPT
                       !.quotes = [q \in DOMAIN quotes \ doomed |-> quotes[q]],
                       !.people = deleteDocument(@, personId)],
                    nextId, "ok", {})

(***************************************************************************)
(* claimPlaceholder (index.js:628-674), unclaimPlaceholder (676-733).      *)
(***************************************************************************)
\* Variant: the check of line 641 finds no claim on the Membership.
claimRecorded_ignored(st, membershipId) == FALSE

\* index.js:641, 688: the Membership records a claimed placeholder.
claimRecorded(st, membershipId) ==
  st.memberships[membershipId].claimedPlaceholderId # 0

\* Variant: the listing returns every Quote of the group.
claimedQuotes_wholeGroup(st, groupId, placeholderId) ==
  {q \in DOMAIN st.quotes : st.quotes[q].groupId = groupId}

\* index.js:650-653: the Quotes of the group that reference the placeholder.
claimedQuotes(st, groupId, placeholderId) == quotesOfPerson(st, groupId, placeholderId)

\* index.js:634-648: the checks that precede the first write.
claimPlaceholderAllowed(st, actorId, groupId, placeholderId) ==
  LET membershipId == getMembershipByUser(st, groupId, actorId)
  IN /\ membershipId # 0
     /\ st.memberships[membershipId].personId # 0
     /\ ~claimRecorded(st, membershipId)
     /\ placeholderId \in DOMAIN st.people
     /\ st.people[placeholderId].groupId = groupId
     /\ st.people[placeholderId].isPlaceholder

\* index.js:655-671: the writes of a claim in the order the handler issues
\* them, the first `done` of them applied: one update per Quote the listing
\* of lines 650-653 returned, the delete of the placeholder, the update of
\* the Membership.
claimWrites(st, actorId, groupId, placeholderId, done) ==
  LET membershipId == getMembershipByUser(st, groupId, actorId)
      listed == ascending(claimedQuotes(st, groupId, placeholderId))
      reassigned == {listed[i] : i \in {j \in 1..Len(listed) : j <= done}}
      st1 == [st EXCEPT
                !.quotes = [q \in DOMAIN st.quotes |->
                              IF q \in reassigned
                              THEN [st.quotes[q] EXCEPT
                                      !.personId = st.memberships[membershipId].personId,
                                      !.sourcePlaceholderId = placeholderId]
                              ELSE st.quotes[q]]]
      st2 == IF done > Len(listed)
             THEN [st1 EXCEPT !.people = deleteDocument(@, placeholderId)]
             ELSE st1
  IN IF done > Len(listed) + 1
     THEN [st2 EXCEPT
             !.memberships[membershipId].claimedPlaceholderId = placeholderId,
             !.memberships[membershipId].claimedPlaceholderName =
                st.people[placeholderId].name]
     ELSE st2

\* The number of writes of a claim.
claimLength(st, groupId, placeholderId) ==
  Cardinality(claimedQuotes(st, groupId, placeholderId)) + 2

\* The store after a claim that passed its checks and ran to its end.
claimPlaceholder(st, actorId, groupId, placeholderId) ==
  claimWrites(st, actorId, groupId, placeholderId,
              claimLength(st, groupId, placeholderId))

ClaimPlaceholder(actorId, groupId, placeholderId) ==
  /\ UNCHANGED calls
  /\ IF ~claimPlaceholderAllowed(Store, actorId, groupId, placeholderId) THEN Reject
     ELSE Commit(claimPlaceholder(Store, actorId, groupId, placeholderId),
                 nextId, "ok", {})

\* index.js:681-690: the checks of unclaimPlaceholder.
unclaimPlaceholderAllowed(st, actorId, groupId) ==
  LET membershipId == getMembershipByUser(st, groupId, actorId)
  IN /\ membershipId # 0
     /\ st.memberships[membershipId].personId # 0
     /\ claimRecorded(st, membershipId)

\* index.js:711-714: the Quotes an unclaim moves to the new placeholder.
unclaimedQuotes(st, groupId, claimed) ==
  {q \in DOMAIN st.quotes : /\ st.quotes[q].groupId = groupId
                            /\ st.quotes[q].sourcePlaceholderId = claimed}

\* The store after an unclaim that passed its checks and ran to its end;
\* newId is the id of the placeholder it creates.
unclaimPlaceholder(st, actorId, groupId, newId) ==
  LET membershipId == getMembershipByUser(st, groupId, actorId)
      roster == listGroupMembers(st, groupId)
      claimed == st.memberships[membershipId].claimedPlaceholderId
      name == st.memberships[membershipId].claimedPlaceholderName
      moved == unclaimedQuotes(st, groupId, claimed)
  IN [st EXCEPT
        !.people = createDocument(@, newId,
           [groupId |-> groupId,
            name |-> IF name = "" THEN "Placeholder" ELSE name,
            userId |-> NoUser, isPlaceholder |-> TRUE,
            permissions |-> personPermissions(memberIdsOf(st, roster),
                                              adminIdsOf(st, roster), TRUE)]),
        !.quotes = [q \in DOMAIN st.quotes |->
                      IF q \in moved
                      THEN [st.quotes[q] EXCEPT !.personId = newId]
                      ELSE st.quotes[q]],
        !.memberships[membershipId].claimedPlaceholderId = 0,
        !.memberships[membershipId].claimedPlaceholderName = ""]

UnclaimPlaceholder(actorId, groupId) ==
  /\ UNCHANGED calls
  /\ IF ~unclaimPlaceholderAllowed(Store, actorId, groupId) THEN Reject
     ELSE /\ nextId.people <= MaxPeople
          /\ Commit(unclaimPlaceholder(Store, actorId, groupId, nextId.people),
                    bump(nextId, "people"), "ok", {})

(***************************************************************************)
(* Sequential specification: every handler runs to completion before the   *)
(* next request is served.                                                 *)
(***************************************************************************)
Idle == [pc |-> "idle", actorId |-> NoUser, groupId |-> 0,
         currentOwner |-> 0, nextOwner |-> 0, started |-> 0,
         adminIds |-> <<>>, attempts |-> 0, code |-> "", invite |-> 0,
         placeholder |-> 0, listed |-> {}, action |-> "", client |-> FALSE,
         status |-> 0, failed |-> <<>>, snapshot |-> <<>>, force |-> FALSE]

\* The slots once the calls in them have returned.
Ended == [q \in Procs |-> [Idle EXCEPT !.started = calls[q].started]]

Init ==
  /\ groups = <<>>
  /\ memberships = <<>>
  /\ people = <<>>
  /\ quotes = <<>>
  /\ invites = <<>>
  /\ nextId = [groups |-> 1, memberships |-> 1, people |-> 1, quotes |-> 1, invites |-> 1]
  /\ result = "init"
  /\ writes = {}
  /\ calls = [p \in Procs |-> Idle]

Next ==
  \/ \E actorId \in Users : CreateGroupWithOwner(actorId)
  \/ \E actorId \in Users, typed \in TypedCodes : JoinGroupByCode(actorId, typed)
  \/ \E actorId \in Users, groupId \in GroupIds, name \in PlaceholderNames :
       CreatePlaceholderPerson(actorId, groupId, name)
  \/ \E actorId \in Users, groupId \in GroupIds, personId \in PersonIds :
       CreateQuote(actorId, groupId, personId)
  \/ \E actorId \in Users, groupId \in GroupIds, membershipId \in MembershipIds,
        newRole \in RequestedRoles :
       UpdateMemberRole(actorId, groupId, membershipId, newRole)
  \/ \E actorId \in Users, groupId \in GroupIds, cur \in MembershipIds,
        nxt \in MembershipIds :
       TransferOwnership(actorId, groupId, cur, nxt)
  \/ \E actorId \in Users, groupId \in GroupIds, membershipId \in MembershipIds :
       RemoveMember(actorId, groupId, membershipId)
  \/ \E actorId \in Users, groupId \in GroupIds : SyncGroupPermissions(actorId, groupId)

Spec == Init /\ [][Next]_vars

(***************************************************************************)
(* Role lifecycle alone: group creation, joins, role changes and ownership *)
(* transfers, each run to completion.                                      *)
(***************************************************************************)
NextRoles ==
  \/ \E actorId \in Users : CreateGroupWithOwner(actorId)
  \/ \E actorId \in Users, typed \in TypedCodes : JoinGroupByCode(actorId, typed)
  \/ \E actorId \in Users, groupId \in GroupIds, membershipId \in MembershipIds,
        newRole \in RequestedRoles :
       UpdateMemberRole(actorId, groupId, membershipId, newRole)
  \/ \E actorId \in Users, groupId \in GroupIds, cur \in MembershipIds,
        nxt \in MembershipIds :
       TransferOwnership(actorId, groupId, cur, nxt)

SpecRoles == Init /\ [][NextRoles]_vars

(***************************************************************************)
(* Removal lifecycle: group creation, joins, promotions, quotes and        *)
(* removals, each run to completion.                                       *)
(***************************************************************************)
NextRemove ==
  \/ \E actorId \in Users : CreateGroupWithOwner(actorId)
  \/ \E actorId \in Users, typed \in TypedCodes : JoinGroupByCode(actorId, typed)
  \/ \E actorId \in Users, groupId \in GroupIds, membershipId \in MembershipIds,
        newRole \in RequestedRoles :
       UpdateMemberRole(actorId, groupId, membershipId, newRole)
  \/ \E actorId \in Users, groupId \in GroupIds, personId \in PersonIds :
       CreateQuote(actorId, groupId, personId)
  \/ \E actorId \in Users, groupId \in GroupIds, membershipId \in MembershipIds :
       RemoveMember(actorId, groupId, membershipId)

SpecRemove == Init /\ [][NextRemove]_vars

(***************************************************************************)
(* transferOwnership write by write (index.js:785-816), for requests that  *)
(* overlap.  The reads of lines 785-789 keep only fields no handler        *)
(* changes ($id, groupId, userId) besides the actor's role.                *)
(***************************************************************************)
TransferBegin(p, actorId, groupId, currentOwnerMembershipId, nextOwnerMembershipId) ==
  /\ calls[p].pc = "idle"
  /\ calls[p].started < MaxCalls
  /\ UNCHANGED <<groups, memberships, people, quotes, invites, nextId, writes>>
  /\ IF transferOwnershipAllowed(Store, actorId, groupId, currentOwnerMembershipId,
                                 nextOwnerMembershipId)
     THEN /\ calls' = [calls EXCEPT ![p] =
                         [Idle EXCEPT !.pc = "setOwnerId", !.actorId = actorId,
                                      !.groupId = groupId,
                                      !.currentOwner = currentOwnerMembershipId,
                                      !.nextOwner = nextOwnerMembershipId,
                                      !.started = calls[p].started + 1]]
          /\ UNCHANGED result
     ELSE /\ result' = "error"
          /\ UNCHANGED calls

TransferSetOwnerId(p) ==
  /\ calls[p].pc = "setOwnerId"
  /\ groups' = setOwnerId(Store, calls[p].groupId,
                          memberships[calls[p].nextOwner].userId).groups
  /\ calls' = [calls EXCEPT ![p].pc = "demote"]
  /\ UNCHANGED <<memberships, people, quotes, invites, nextId, result, writes>>

TransferDemote(p) ==
  /\ calls[p].pc = "demote"
  /\ memberships' = setRole(Store, calls[p].currentOwner, "admin").memberships
  /\ calls' = [calls EXCEPT ![p].pc = "promote"]
  /\ UNCHANGED <<groups, people, quotes, invites, nextId, result, writes>>

TransferPromote(p) ==
  /\ calls[p].pc = "promote"
  /\ memberships' = setRole(Store, calls[p].nextOwner, "owner").memberships
  /\ calls' = [calls EXCEPT ![p].pc = "sync"]
  /\ UNCHANGED <<groups, people, quotes, invites, nextId, result, writes>>

TransferSync(p) ==
  /\ calls[p].pc = "sync"
  /\ CommitSynced(syncGroupPermissionsInternal(Store, calls[p].groupId,
                                               calls[p].actorId, TRUE), nextId, FALSE)
  /\ calls' = [calls EXCEPT ![p] = [Idle EXCEPT !.started = calls[p].started]]

\* A document without its ACL yet.
groupDoc(ownerId) == [ownerId |-> ownerId, permissions |-> <<>>]

membershipDoc(groupId, userId, role, personId) ==
  [groupId |-> groupId, userId |-> userId, role |-> role,
   displayName |-> DisplayNameOf(userId), personId |-> personId,
   claimedPlaceholderId |-> 0, claimedPlaceholderName |-> "", permissions |-> <<>>]

personDoc(groupId, name, userId) ==
  [groupId |-> groupId, name |-> name, userId |-> userId,
   isPlaceholder |-> (userId = NoUser), permissions |-> <<>>]

quoteDoc(groupId, personId) ==
  [groupId |-> groupId, personId |-> personId, sourcePlaceholderId |-> 0,
   permissions |-> <<>>]

inviteDoc(groupId, code) ==
  [groupId |-> groupId, name |-> "General", code |-> code, permissions |-> <<>>]

\* st with the ACL acl(kind, id) on every document.
withPermissions(st, acl) ==
  [kind \in {"groups", "memberships", "people", "quotes", "invites"} |->
     [x \in DOMAIN st[kind] |-> [st[kind][x] EXCEPT !.permissions = acl[<<kind, x>>]]]]

\* The group of u1 after u2 and then u3 joined it with the invite code:
\* each join rewrote the older documents, and built the new ones in roster
\* order, so every document carries the policy ACL as reconcile builds it.
JoinedGroup ==
  LET st == [groups |-> (1 :> groupDoc("u1")),
             memberships |-> (1 :> membershipDoc(1, "u1", "owner", 1))
                               @@ (2 :> membershipDoc(1, "u2", "member", 2))
                               @@ (3 :> membershipDoc(1, "u3", "member", 3)),
             people |-> (1 :> personDoc(1, DisplayNameOf("u1"), "u1"))
                          @@ (2 :> personDoc(1, DisplayNameOf("u2"), "u2"))
                          @@ (3 :> personDoc(1, DisplayNameOf("u3"), "u3")),
             quotes |-> <<>>,
             invites |-> (1 :> inviteDoc(1, "ABC23XYZ"))]
      roster == listGroupMembers(st, 1)
      memberIds == memberIdsOf(st, roster)
      adminIds == adminIdsOf(st, roster)
      ownerId == ownerIdOf(st, roster)
  IN withPermissions(st, [d \in groupDocuments(st, 1) |->
       desiredPermissions(st, d[1], d[2], memberIds, adminIds, ownerId)])

InitConc ==
  /\ groups = JoinedGroup.groups
  /\ memberships = JoinedGroup.memberships
  /\ people = JoinedGroup.people
  /\ quotes = JoinedGroup.quotes
  /\ invites = JoinedGroup.invites
  /\ nextId = [groups |-> 2, memberships |-> 4, people |-> 4, quotes |-> 1, invites |-> 2]
  /\ result = "ok"
  /\ writes = {}
  /\ calls = [p \in Procs |-> Idle]

NextConc ==
  \/ \E p \in Procs, actorId \in Users, groupId \in GroupIds, cur \in MembershipIds,
        nxt \in MembershipIds :
       TransferBegin(p, actorId, groupId, cur, nxt)
  \/ \E p \in Procs : TransferSetOwnerId(p)
  \/ \E p \in Procs : TransferDemote(p)
  \/ \E p \in Procs : TransferPromote(p)
  \/ \E p \in Procs : TransferSync(p)

SpecConc == InitConc /\ [][NextConc]_vars

(***************************************************************************)
(* Reconciliation of an arbitrary group state.  The roster is any role     *)
(* assignment of the users (no owner, several owners and an empty roster   *)
(* included).  The documents created under one roster snapshot (a member's *)
(* Membership and Person; the placeholders; the quotes; the invites) carry *)
(* either the ACL of the current roster in another order, or the ACL       *)
(* attached when u1 alone was in the group.                                *)
(***************************************************************************)
SyncPlaceholders == 1
SyncQuotes == 1
SyncInvites == 1

SyncUsers == <<"u1", "u2", "u3">>
SyncCodes == <<"ABC23XYZ", "QRS45TUV">>
SyncRosters == [1..Len(SyncUsers) -> Roles \cup {"none"}]
AclChoices == {"reordered", "stale"}

Reverse(s) == [i \in 1..Len(s) |-> s[Len(s) + 1 - i]]

syncDocuments(roleOf) ==
  LET present == {m \in 1..Len(SyncUsers) : roleOf[m] # "none"}
      placeholders == (Len(SyncUsers) + 1)..(Len(SyncUsers) + SyncPlaceholders)
  IN [groups |-> (1 :> groupDoc("u1")),
      memberships |-> [m \in present |-> membershipDoc(1, SyncUsers[m], roleOf[m], m)],
      people |-> [p \in present \cup placeholders |->
                    IF p \in present
                    THEN personDoc(1, DisplayNameOf(SyncUsers[p]), SyncUsers[p])
                    ELSE personDoc(1, "Cat", NoUser)],
      quotes |-> [q \in 1..SyncQuotes |-> quoteDoc(1, Len(SyncUsers) + 1)],
      invites |-> [i \in 1..SyncInvites |-> inviteDoc(1, SyncCodes[i])]]

\* The request that created a document: a member's Membership and Person
\* come from the same join.
createdBy(kind, id) ==
  CASE kind = "groups" -> <<"createGroupWithOwner", 0>>
    [] kind = "memberships" -> <<"joinGroupByCode", id>>
    [] kind = "people" /\ id <= Len(SyncUsers) -> <<"joinGroupByCode", id>>
    [] kind = "people" -> <<"createPlaceholderPerson", 0>>
    [] kind = "quotes" -> <<"createQuote", 0>>
    [] OTHER -> <<"createInvite", 0>>

stalePermissions(st, kind, id) ==
  LET memberIds == <<"u1">>
      adminIds == <<"u1">>
  IN CASE kind = "groups" -> groupPermissions(memberIds, adminIds, "u1")
       [] kind = "memberships" ->
            membershipPermissions(memberIds, adminIds, st.memberships[id].userId)
       [] kind = "people" ->
            personPermissions(memberIds, adminIds, st.people[id].isPlaceholder)
       [] kind = "quotes" -> quotePermissions(memberIds, adminIds)
       [] OTHER -> invitePermissions(adminIds)

\* The stored documents of a roster whose ACLs were attached as `choice` says.
syncStore(roleOf, choice) ==
  LET base == syncDocuments(roleOf)
      roster == listGroupMembers(base, 1)
      memberIds == memberIdsOf(base, roster)
      adminIds == adminIdsOf(base, roster)
      ownerId == ownerIdOf(base, roster)
  IN withPermissions(base, [d \in groupDocuments(base, 1) |->
       IF choice[createdBy(d[1], d[2])] = "reordered"
       THEN Reverse(desiredPermissions(base, d[1], d[2], memberIds, adminIds, ownerId))
       ELSE stalePermissions(base, d[1], d[2])])

syncRequests(roleOf) ==
  {createdBy(d[1], d[2]) : d \in groupDocuments(syncDocuments(roleOf), 1)}

startFrom(st) ==
  /\ groups = st.groups
  /\ memberships = st.memberships
  /\ people = st.people
  /\ quotes = st.quotes
  /\ invites = st.invites
  /\ nextId = [groups |-> 2, memberships |-> Len(SyncUsers) + 1,
               people |-> Len(SyncUsers) + SyncPlaceholders + 1,
               quotes |-> SyncQuotes + 1, invites |-> SyncInvites + 1]
  /\ result = "init"
  /\ writes = {}
  /\ calls = [p \in Procs |-> Idle]

InitSync ==
  \E roleOf \in SyncRosters :
    \E choice \in [syncRequests(roleOf) -> AclChoices] :
      startFrom(syncStore(roleOf, choice))

NextSync ==
  \E actorId \in Users, groupId \in GroupIds : SyncGroupPermissions(actorId, groupId)

SpecSync == InitSync /\ [][NextSync]_vars



(***************************************************************************)
(* Life of one group after its creation: joins, placeholders, quotes and   *)
(* role changes, each run to completion.                                   *)
(***************************************************************************)
\* The group u1 has just created: createGroupWithOwner returned ok.
FoundedGroup ==
  LET st == [groups |-> (1 :> groupDoc("u1")),
             memberships |-> (1 :> membershipDoc(1, "u1", "owner", 1)),
             people |-> (1 :> personDoc(1, DisplayNameOf("u1"), "u1")),
             quotes |-> <<>>,
             invites |-> (1 :> inviteDoc(1, "ABC23XYZ"))]
  IN withPermissions(st, [d \in groupDocuments(st, 1) |->
       desiredPermissions(st, d[1], d[2], <<"u1">>, <<"u1">>, "u1")])

InitMembers ==
  /\ groups = FoundedGroup.groups
  /\ memberships = FoundedGroup.memberships
  /\ people = FoundedGroup.people
  /\ quotes = FoundedGroup.quotes
  /\ invites = FoundedGroup.invites
  /\ nextId = [groups |-> 2, memberships |-> 2, people |-> 2, quotes |-> 1, invites |-> 2]
  /\ result = "ok"
  /\ writes = {}
  /\ calls = [p \in Procs |-> Idle]

NextMembers ==
  \/ \E actorId \in Users, typed \in TypedCodes : JoinGroupByCode(actorId, typed)
  \/ \E actorId \in Users, groupId \in DOMAIN groups, name \in PlaceholderNames :
       CreatePlaceholderPerson(actorId, groupId, name)
  \/ \E actorId \in Users, groupId \in DOMAIN groups, personId \in PersonIds :
       CreateQuote(actorId, groupId, personId)
  \/ \E actorId \in Users, groupId \in DOMAIN groups, membershipId \in MembershipIds,
        newRole \in RequestedRoles :
       UpdateMemberRole(actorId, groupId, membershipId, newRole)

SpecMembers == InitMembers /\ [][NextMembers]_vars

(***************************************************************************)
(* Two groups side by side: u1 owns the first and u3 the second, and each  *)
(* has an invite, so that a request can name a group together with a       *)
(* Membership of the other one.                                            *)
(***************************************************************************)
TwoGroups ==
  LET st == [groups |-> (1 :> groupDoc("u1")) @@ (2 :> groupDoc("u3")),
             memberships |-> (1 :> membershipDoc(1, "u1", "owner", 1))
                               @@ (2 :> membershipDoc(2, "u3", "owner", 2)),
             people |-> (1 :> personDoc(1, DisplayNameOf("u1"), "u1"))
                          @@ (2 :> personDoc(2, DisplayNameOf("u3"), "u3")),
             quotes |-> <<>>,
             invites |-> (1 :> inviteDoc(1, "ABC23XYZ")) @@ (2 :> inviteDoc(2, "QRS45TUV"))]
      founder(d) ==
        IF (IF d[1] = "groups" THEN d[2] ELSE st[d[1]][d[2]].groupId) = 1
        THEN "u1" ELSE "u3"
  IN withPermissions(st, [d \in groupDocuments(st, 1) \cup groupDocuments(st, 2) |->
       desiredPermissions(st, d[1], d[2], <<founder(d)>>, <<founder(d)>>, founder(d))])

InitGroups ==
  /\ groups = TwoGroups.groups
  /\ memberships = TwoGroups.memberships
  /\ people = TwoGroups.people
  /\ quotes = TwoGroups.quotes
  /\ invites = TwoGroups.invites
  /\ nextId = [groups |-> 3, memberships |-> 3, people |-> 3, quotes |-> 1, invites |-> 3]
  /\ result = "ok"
  /\ writes = {}
  /\ calls = [p \in Procs |-> Idle]

NextGroups ==
  \/ \E actorId \in Users, typed \in TypedCodes : JoinGroupByCode(actorId, typed)
  \/ \E actorId \in Users, groupId \in DOMAIN groups, name \in PlaceholderNames :
       CreatePlaceholderPerson(actorId, groupId, name)
  \/ \E actorId \in Users, groupId \in DOMAIN groups, membershipId \in MembershipIds,
        newRole \in RequestedRoles :
       UpdateMemberRole(actorId, groupId, membershipId, newRole)

SpecGroups == InitGroups /\ [][NextGroups]_vars

(***************************************************************************)
(* createInvite read by read and write by write (index.js:389-412 and      *)
(* 96-132), for requests that overlap.  A call keeps what it read: the     *)
(* admins of the roster, the number of codes drawn so far and the code its *)
(* lookup found free.                                                      *)
(***************************************************************************)
\* The unique index on the code of an Invite (appwrite-setup.mjs:302): the
\* store refuses a document whose code another Invite carries.
invites_code_unique(coll, code) == \A i \in DOMAIN coll : coll[i].code # code

\* Variant: the loop runs while attempt <= maxAttempts.
moreAttempts_inclusive(attempt) == attempt <= maxAttempts

\* The condition of the retry loop (index.js:105).
moreAttempts(attempt) == attempt < maxAttempts

Resting == {"idle", "done", "failed", "conflict"}

\* index.js:389-403: the admin check and the roster read.
InviteBegin(p, actorId, groupId) ==
  /\ calls[p].pc \in Resting
  /\ calls[p].started < MaxCalls
  /\ UNCHANGED <<groups, memberships, people, quotes, invites, nextId, writes>>
  /\ IF ensureAdmin(Store, getMembershipByUser(Store, groupId, actorId))
     THEN /\ calls' = [calls EXCEPT ![p] =
                         [Idle EXCEPT !.pc = "draw", !.actorId = actorId,
                                      !.groupId = groupId,
                                      !.adminIds = adminIdsOf(Store,
                                                     listGroupMembers(Store, groupId)),
                                      !.started = calls[p].started + 1]]
          /\ UNCHANGED result
     ELSE /\ result' = "error"
          /\ UNCHANGED calls

\* index.js:105-113 and 131: one pass of the loop up to its lookup.  A code
\* found in the store sends the call round again, or out of the loop into
\* the throw when the attempts are used up.
InviteDraw(p, code) ==
  /\ calls[p].pc = "draw"
  /\ UNCHANGED <<groups, memberships, people, quotes, invites, nextId, writes>>
  /\ LET attempt == calls[p].attempts + 1
     IN IF codeExists(invites, code)
        THEN IF moreAttempts(attempt)
             THEN /\ calls' = [calls EXCEPT ![p].attempts = attempt]
                  /\ UNCHANGED result
             ELSE /\ calls' = [calls EXCEPT ![p].attempts = attempt, ![p].pc = "failed"]
                  /\ result' = "error"
        ELSE /\ calls' = [calls EXCEPT ![p].attempts = attempt, ![p].code = code,
                                        ![p].pc = "create"]
             /\ UNCHANGED result

\* index.js:115-128: the createDocument of the code the lookup found free.
\* The store rejects it when the code has been taken since, and the error
\* leaves the handler.
InviteCreate(p) ==
  /\ calls[p].pc = "create"
  /\ UNCHANGED <<groups, memberships, people, quotes, writes>>
  /\ IF invites_code_unique(invites, calls[p].code)
     THEN /\ invites' = createDocument(invites, nextId.invites,
                           [groupId |-> calls[p].groupId, name |-> "General",
                            code |-> calls[p].code,
                            permissions |-> invitePermissions(calls[p].adminIds)])
          /\ nextId' = bump(nextId, "invites")
          /\ calls' = [calls EXCEPT ![p].pc = "done", ![p].invite = nextId.invites]
          /\ result' = "ok"
     ELSE /\ calls' = [calls EXCEPT ![p].pc = "conflict"]
          /\ result' = "error"
          /\ UNCHANGED <<invites, nextId>>

\* Two groups with one invite between them: the second group's was deleted.
InitInvite ==
  /\ groups = TwoGroups.groups
  /\ memberships = TwoGroups.memberships
  /\ people = TwoGroups.people
  /\ quotes = TwoGroups.quotes
  /\ invites = deleteDocument(TwoGroups.invites, 2)
  /\ nextId = [groups |-> 3, memberships |-> 3, people |-> 3, quotes |-> 1, invites |-> 3]
  /\ result = "ok"
  /\ writes = {}
  /\ calls = [p \in Procs |-> Idle]

NextInvite ==
  \/ \E p \in Procs, actorId \in Users, groupId \in DOMAIN groups :
       InviteBegin(p, actorId, groupId)
  \/ \E p \in Procs, code \in Codes : InviteDraw(p, code)
  \/ \E p \in Procs : InviteCreate(p)

SpecInvite == InitInvite /\ [][NextInvite]_vars

\* The same calls served one after the other.
NextInviteLoop ==
  \/ \E p \in Procs, actorId \in Users, groupId \in DOMAIN groups :
       /\ \A q \in Procs : calls[q].pc \in Resting
       /\ InviteBegin(p, actorId, groupId)
  \/ \E p \in Procs, code \in Codes : InviteDraw(p, code)
  \/ \E p \in Procs : InviteCreate(p)

SpecInviteLoop == InitInvite /\ [][NextInviteLoop]_vars

(***************************************************************************)
(* Every operation a client can request on a group that exists, each run   *)
(* to completion.                                                          *)
(***************************************************************************)
\* The owner and one more user, who joins, leaves and may become the owner.
FrameUsers == {"u1", "u2"}

NextFrame ==
  \/ \E actorId \in FrameUsers, typed \in TypedCodes : JoinGroupByCode(actorId, typed)
  \/ \E actorId \in FrameUsers, groupId \in GroupIds : CreateInvite(actorId, groupId)
  \/ \E actorId \in FrameUsers, inviteId \in InviteIds, name \in InviteNames :
       RenameInvite(actorId, inviteId, name)
  \/ \E actorId \in FrameUsers, inviteId \in InviteIds : DeleteInvite(actorId, inviteId)
  \/ \E actorId \in FrameUsers, groupId \in GroupIds, name \in PlaceholderNames :
       CreatePlaceholderPerson(actorId, groupId, name)
  \/ \E actorId \in FrameUsers, groupId \in GroupIds, personId \in PersonIds :
       CreateQuote(actorId, groupId, personId)
  \/ \E actorId \in FrameUsers, groupId \in GroupIds, quoteId \in QuoteIds :
       DeleteQuote(actorId, groupId, quoteId)
  \/ \E actorId \in FrameUsers, groupId \in GroupIds, personId \in PersonIds,
        force \in BOOLEAN :
       RemovePerson(actorId, groupId, personId, force)
  \/ \E actorId \in FrameUsers, groupId \in GroupIds, placeholderId \in PersonIds :
       ClaimPlaceholder(actorId, groupId, placeholderId)
  \/ \E actorId \in FrameUsers, groupId \in GroupIds : UnclaimPlaceholder(actorId, groupId)
  \/ \E actorId \in FrameUsers, groupId \in GroupIds, membershipId \in MembershipIds,
        newRole \in RequestedRoles :
       UpdateMemberRole(actorId, groupId, membershipId, newRole)
  \/ \E actorId \in FrameUsers, groupId \in GroupIds, cur \in MembershipIds,
        nxt \in MembershipIds :
       TransferOwnership(actorId, groupId, cur, nxt)
  \/ \E actorId \in FrameUsers, groupId \in GroupIds, membershipId \in MembershipIds :
       RemoveMember(actorId, groupId, membershipId)
  \/ \E actorId \in FrameUsers, groupId \in GroupIds : SyncGroupPermissions(actorId, groupId)

\* The group of u1 after u3 has joined it and left again: the documents are
\* those of the group just created, two Membership and Person ids are used.
InitFrame ==
  /\ groups = FoundedGroup.groups
  /\ memberships = FoundedGroup.memberships
  /\ people = FoundedGroup.people
  /\ quotes = FoundedGroup.quotes
  /\ invites = FoundedGroup.invites
  /\ nextId = [groups |-> 2, memberships |-> 3, people |-> 3, quotes |-> 1, invites |-> 2]
  /\ result = "ok"
  /\ writes = {}
  /\ calls = [p \in Procs |-> Idle]

SpecFrame == InitFrame /\ [][NextFrame]_vars

(***************************************************************************)
(* Claiming and unclaiming placeholders, each call run to completion.  The *)
(* calls start from a group that already has placeholders and quotes.      *)
(***************************************************************************)
ClaimQuotes == 2

\* st after a reconcile of each of its groups.
reconciledStore(st) ==
  LET first == syncGroupPermissionsInternal(st, 1, NoUser, FALSE).st
  IN IF 2 \in DOMAIN st.groups
     THEN syncGroupPermissionsInternal(first, 2, NoUser, FALSE).st
     ELSE first

\* A Membership whose optional personId (appwrite-setup.mjs:214) is empty.
membershipWithoutProfile(groupId, userId) ==
  [membershipDoc(groupId, userId, "member", 0) EXCEPT !.personId = 0]

\* The rosters and people the claims start from:
\*  "placeholders": u1 owns the group, u2 is a member without a Person, and
\*                  the group has the placeholders Cat and Dog;
\*  "members":      u1 owns the group, u2 is a member, one placeholder Cat;
\*  "groups":       u1 and u3 each own a group that has one placeholder.
ClaimShapes == {"placeholders", "members", "groups"}

claimShape(shape) ==
  CASE shape = "placeholders" ->
         [groups |-> (1 :> groupDoc("u1")),
          memberships |-> (1 :> membershipDoc(1, "u1", "owner", 1))
                            @@ (2 :> membershipWithoutProfile(1, "u2")),
          people |-> (1 :> personDoc(1, DisplayNameOf("u1"), "u1"))
                       @@ (2 :> personDoc(1, "Cat", NoUser))
                       @@ (3 :> personDoc(1, "Dog", NoUser)),
          invites |-> (1 :> inviteDoc(1, "ABC23XYZ"))]
    [] shape = "members" ->
         [groups |-> (1 :> groupDoc("u1")),
          memberships |-> (1 :> membershipDoc(1, "u1", "owner", 1))
                            @@ (2 :> membershipDoc(1, "u2", "member", 3)),
          people |-> (1 :> personDoc(1, DisplayNameOf("u1"), "u1"))
                       @@ (2 :> personDoc(1, "Cat", NoUser))
                       @@ (3 :> personDoc(1, DisplayNameOf("u2"), "u2")),
          invites |-> (1 :> inviteDoc(1, "ABC23XYZ"))]
    [] OTHER ->
         [groups |-> (1 :> groupDoc("u1")) @@ (2 :> groupDoc("u3")),
          memberships |-> (1 :> membershipDoc(1, "u1", "owner", 1))
                            @@ (2 :> membershipDoc(2, "u3", "owner", 3)),
          people |-> (1 :> personDoc(1, DisplayNameOf("u1"), "u1"))
                       @@ (2 :> personDoc(1, "Cat", NoUser))
                       @@ (3 :> personDoc(2, DisplayNameOf("u3"), "u3"))
                       @@ (4 :> personDoc(2, "Dog", NoUser)),
          invites |-> (1 :> inviteDoc(1, "ABC23XYZ")) @@ (2 :> inviteDoc(2, "QRS45TUV"))]

\* The shape with ClaimQuotes quotes, quote q made about Person refs[q] in
\* that Person's group, and every document reconciled.
claimStore(shape, refs) ==
  LET base == claimShape(shape)
  IN reconciledStore(
       [groups |-> base.groups, memberships |-> base.memberships,
        people |-> base.people,
        quotes |-> [q \in 1..ClaimQuotes |->
                      quoteDoc(base.people[refs[q]].groupId, refs[q])],
        invites |-> base.invites])

claimsStartFrom(st) ==
  /\ groups = st.groups
  /\ memberships = st.memberships
  /\ people = st.people
  /\ quotes = st.quotes
  /\ invites = st.invites
  /\ nextId = [groups |-> Cardinality(DOMAIN st.groups) + 1,
               memberships |-> Cardinality(DOMAIN st.memberships) + 1,
               people |-> Cardinality(DOMAIN st.people) + 1,
               quotes |-> ClaimQuotes + 1,
               invites |-> Cardinality(DOMAIN st.invites) + 1]
  /\ result = "ok"
  /\ writes = {}
  /\ calls = [p \in Procs |-> Idle]

InitClaims ==
  \E shape \in ClaimShapes :
    \E refs \in [1..ClaimQuotes -> DOMAIN claimShape(shape).people] :
      claimsStartFrom(claimStore(shape, refs))

\* A request names a Person of the store or an id the store does not hold.
NextClaims ==
  \/ \E actorId \in Users, groupId \in DOMAIN groups,
        placeholderId \in DOMAIN people \cup {nextId.people} :
       ClaimPlaceholder(actorId, groupId, placeholderId)
  \/ \E actorId \in Users, groupId \in DOMAIN groups : UnclaimPlaceholder(actorId, groupId)

SpecClaims == InitClaims /\ [][NextClaims]_vars

(***************************************************************************)
(* Members who come and go and whose Persons are claimed: joins under the  *)
(* display name the request carries, placeholders, quotes, removals,       *)
(* claims and unclaims, each run to completion.                            *)
(***************************************************************************)
\* payload.displayName of a join: the account name, or blanks.  The
\* requests come from the owner and from one more user.
SentNames(actorId) == {DisplayNameOf(actorId), " "}

NextNames ==
  \/ \E actorId \in FrameUsers, typed \in Codes :
       \E sent \in SentNames(actorId) : JoinGroupByCodeAs(actorId, typed, sent)
  \/ \E actorId \in FrameUsers, groupId \in DOMAIN groups, personId \in DOMAIN people :
       CreateQuote(actorId, groupId, personId)
  \/ \E actorId \in FrameUsers, groupId \in DOMAIN groups, membershipId \in DOMAIN memberships :
       RemoveMember(actorId, groupId, membershipId)
  \/ \E actorId \in FrameUsers, groupId \in DOMAIN groups, placeholderId \in DOMAIN people :
       ClaimPlaceholder(actorId, groupId, placeholderId)
  \/ \E actorId \in FrameUsers, groupId \in DOMAIN groups : UnclaimPlaceholder(actorId, groupId)
  \/ \E actorId \in FrameUsers, groupId \in DOMAIN groups, name \in PlaceholderNames :
       CreatePlaceholderPerson(actorId, groupId, name)
  \/ \E actorId \in FrameUsers, groupId \in DOMAIN groups, personId \in DOMAIN people,
        force \in BOOLEAN :
       RemovePerson(actorId, groupId, personId, force)

SpecNames == InitMembers /\ [][NextNames]_vars

(***************************************************************************)
(* A claimPlaceholder request that stops between two of its writes (the    *)
(* caller gave up, or a write failed) and the same request sent again.     *)
(***************************************************************************)
\* index.js:634-671 up to the write after which the request stops: the
\* checks passed and the first `done` writes reached the store.  The call
\* remembers the Quotes its listing returned.
ClaimAbandon(p, actorId, groupId, placeholderId, done) ==
  /\ \A q \in Procs : calls[q].pc \in {"idle", "retried", "refused"}
  /\ calls[p].started < MaxCalls
  /\ claimPlaceholderAllowed(Store, actorId, groupId, placeholderId)
  /\ done < claimLength(Store, groupId, placeholderId)
  /\ Commit(claimWrites(Store, actorId, groupId, placeholderId, done),
            nextId, "abandoned", {})
  /\ calls' = [calls EXCEPT ![p] =
                 [Idle EXCEPT !.pc = "abandoned", !.actorId = actorId,
                              !.groupId = groupId, !.placeholder = placeholderId,
                              !.listed = claimedQuotes(Store, groupId, placeholderId),
                              !.started = calls[p].started + 1]]

\* index.js:628-674 for the payload of the request that stopped.
ClaimRetry(p) ==
  /\ calls[p].pc = "abandoned"
  /\ IF ~claimPlaceholderAllowed(Store, calls[p].actorId, calls[p].groupId,
                                 calls[p].placeholder)
     THEN Reject /\ calls' = [calls EXCEPT ![p].pc = "refused"]
     ELSE /\ Commit(claimPlaceholder(Store, calls[p].actorId, calls[p].groupId,
                                     calls[p].placeholder),
                    nextId, "ok", {})
          /\ calls' = [calls EXCEPT ![p].pc = "retried"]

NextRetry ==
  \/ \E p \in Procs, actorId \in Users, groupId \in DOMAIN groups,
        placeholderId \in DOMAIN people, done \in 0..(ClaimQuotes + 1) :
       ClaimAbandon(p, actorId, groupId, placeholderId, done)
  \/ \E p \in Procs : ClaimRetry(p)

SpecRetry == InitClaims /\ [][NextRetry]_vars

(***************************************************************************)
(* Two lifecycle operations at once.  A joinGroupByCode and an             *)
(* updateMemberRole each write their own documents and then run the        *)
(* reconciler, whose reads and writes are separate requests to the store:  *)
(* the roster is listed (index.js:219), and the updates are issued later   *)
(* with the ACLs derived from that listing.  A call keeps the roster it    *)
(* listed in `snapshot`.                                                   *)
(***************************************************************************)
\* The group of u1 after u2 joined it and a quote was added: every document
\* carries its policy ACL.
PairGroup ==
  LET st == [groups |-> (1 :> groupDoc("u1")),
             memberships |-> (1 :> membershipDoc(1, "u1", "owner", 1))
                               @@ (2 :> membershipDoc(1, "u2", "member", 2)),
             people |-> (1 :> personDoc(1, DisplayNameOf("u1"), "u1"))
                          @@ (2 :> personDoc(1, DisplayNameOf("u2"), "u2")),
             quotes |-> (1 :> quoteDoc(1, 1)),
             invites |-> (1 :> inviteDoc(1, "ABC23XYZ"))]
      roster == listGroupMembers(st, 1)
  IN withPermissions(st, [d \in groupDocuments(st, 1) |->
       desiredPermissions(st, d[1], d[2], memberIdsOf(st, roster),
                          adminIdsOf(st, roster), ownerIdOf(st, roster))])

InitRace ==
  /\ groups = PairGroup.groups
  /\ memberships = PairGroup.memberships
  /\ people = PairGroup.people
  /\ quotes = PairGroup.quotes
  /\ invites = PairGroup.invites
  /\ nextId = [groups |-> 2, memberships |-> 3, people |-> 3, quotes |-> 2, invites |-> 2]
  /\ result = "ok"
  /\ writes = {}
  /\ calls = [p \in Procs |-> Idle]

\* index.js:464-536: the join up to its call of the reconciler.
RaceJoin(p, actorId, typed) ==
  /\ calls[p].pc = "idle"
  /\ calls[p].started < MaxCalls
  /\ joinInvite(Store, typed) # 0
  /\ LET groupId == invites[joinInvite(Store, typed)].groupId
     IN /\ joinExisting(Store, groupId, actorId) = 0
        /\ nextId.people <= MaxPeople
        /\ nextId.memberships <= MaxMemberships
        /\ Commit(joinCreate(Store, nextId, groupId, actorId,
                             joinDisplayName(DisplayNameOf(actorId))),
                  bump(bump(nextId, "people"), "memberships"), "pending", {})
        /\ calls' = [calls EXCEPT ![p] =
                       [Idle EXCEPT !.pc = "read", !.action = "joinGroupByCode",
                                    !.actorId = actorId, !.groupId = groupId,
                                    !.started = calls[p].started + 1]]

\* index.js:735-774: the role change up to its call of the reconciler.
RaceRole(p, actorId, groupId, membershipId, newRole) ==
  /\ calls[p].pc = "idle"
  /\ calls[p].started < MaxCalls
  /\ updateMemberRoleAllowed(Store, actorId, groupId, membershipId, newRole)
  /\ Commit(setRole(Store, membershipId, newRole), nextId, "pending", {})
  /\ calls' = [calls EXCEPT ![p] =
                 [Idle EXCEPT !.pc = "read", !.action = "updateMemberRole",
                              !.actorId = actorId, !.groupId = groupId,
                              !.started = calls[p].started + 1]]

\* index.js:215-219: the check of the caller (a join passes enforceAdmin =
\* false) and the listing of the roster.
RaceRead(p) ==
  /\ calls[p].pc = "read"
  /\ IF /\ calls[p].action = "updateMemberRole"
        /\ ~ensureAdmin(Store, getMembershipByUser(Store, calls[p].groupId, calls[p].actorId))
     THEN Reject /\ calls' = [calls EXCEPT ![p].pc = "failed"]
     ELSE /\ Commit(Store, nextId, "pending", {})
          /\ calls' = [calls EXCEPT ![p].pc = "write",
                                    ![p].snapshot =
                         LET roster == listGroupMembers(Store, calls[p].groupId)
                         IN [i \in 1..Len(roster) |->
                               [id |-> roster[i], doc |-> memberships[roster[i]]]]]

\* index.js:220-303 for the roster listed earlier: the ACLs are derived from
\* the listing; the Group, the People, the Quotes and the Invites are read
\* now, the Memberships are compared as they were listed.
syncFromSnapshot(st, groupId, snapshot) ==
  LET listed == [memberships |-> [i \in 1..Len(snapshot) |-> snapshot[i].doc]]
      roster == [i \in 1..Len(snapshot) |-> i]
      memberIds == memberIdsOf(listed, roster)
      adminIds == adminIdsOf(listed, roster)
      ownerId == ownerIdOf(listed, roster)
      desired(kind, id) == desiredPermissions(st, kind, id, memberIds, adminIds, ownerId)
      asRead(kind, id) ==
        IF kind = "memberships"
        THEN (CHOOSE i \in 1..Len(snapshot) : snapshot[i].id = id)
        ELSE 0
      visited == {d \in groupDocuments(st, groupId) :
                    d[1] = "memberships" => \E i \in 1..Len(snapshot) : snapshot[i].id = d[2]}
      stale == {d \in visited :
                  needsUpdate(IF d[1] = "memberships"
                              THEN snapshot[asRead(d[1], d[2])].doc
                              ELSE st[d[1]][d[2]],
                              desired(d[1], d[2]))}
  IN [kind \in DOMAIN st |->
        [x \in DOMAIN st[kind] |->
           IF <<kind, x>> \in stale
           THEN updatePermissions(st[kind][x], desired(kind, x))
           ELSE st[kind][x]]]

RaceWrite(p) ==
  /\ calls[p].pc = "write"
  /\ Commit(syncFromSnapshot(Store, calls[p].groupId, calls[p].snapshot), nextId, "ok", {})
  /\ calls' = [calls EXCEPT ![p].pc = "done"]

NextRace ==
  \/ \E p \in Procs, actorId \in Users, typed \in TypedCodes : RaceJoin(p, actorId, typed)
  \/ \E p \in Procs, actorId \in Users, groupId \in DOMAIN groups,
        membershipId \in DOMAIN memberships, newRole \in RequestedRoles :
       RaceRole(p, actorId, groupId, membershipId, newRole)
  \/ \E p \in Procs : RaceRead(p)
  \/ \E p \in Procs : RaceWrite(p)

SpecRace == InitRace /\ [][NextRace]_vars

(***************************************************************************)
(* A reconcile that meets a failing update (index.js:208-304).  The        *)
(* reconciler awaits its updateDocument calls one after the other and      *)
(* catches nothing: the first call that throws ends the invocation, and    *)
(* the dispatcher answers with the error.  A call records the document     *)
(* whose update failed.                                                    *)
(***************************************************************************)
\* The documents of a group in the order the reconciler visits them: the
\* Group, the Memberships as listGroupMembers returns them, then the People,
\* the Quotes and the Invites as their listings return them.
syncOrder(st, groupId) ==
  LET roster == listGroupMembers(st, groupId)
      listing(kind) ==
        LET ids == ascending({x \in DOMAIN st[kind] : st[kind][x].groupId = groupId})
        IN [i \in 1..Len(ids) |-> <<kind, ids[i]>>]
  IN <<<<"groups", groupId>>>>
       \o [i \in 1..Len(roster) |-> <<"memberships", roster[i]>>]
       \o listing("people") \o listing("quotes") \o listing("invites")

\* The updateDocument calls of a reconcile of groupId, in the order issued.
syncUpdates(st, groupId) ==
  LET roster == listGroupMembers(st, groupId)
      memberIds == memberIdsOf(st, roster)
      adminIds == adminIdsOf(st, roster)
      ownerId == ownerIdOf(st, roster)
  IN SelectSeq(syncOrder(st, groupId),
               LAMBDA d : needsUpdate(st[d[1]][d[2]],
                            desiredPermissions(st, d[1], d[2], memberIds, adminIds, ownerId)))

\* Variant: the loop goes on after the update that failed.
writtenBeforeFailure_skipping(updates, k) ==
  {updates[i] : i \in (1..Len(updates)) \ {k}}

\* The updates that took effect when the k-th one throws.
writtenBeforeFailure(updates, k) == {updates[i] : i \in 1..(k - 1)}

\* The reconcile whose k-th updateDocument throws.
syncGroupPermissionsFailing(st, groupId, actorId, k) ==
  LET whole == syncGroupPermissionsInternal(st, groupId, actorId, TRUE)
      written == writtenBeforeFailure(syncUpdates(st, groupId), k)
      kept(kind) ==
        [x \in DOMAIN st[kind] |->
           IF <<kind, x>> \in written THEN whole.st[kind][x] ELSE st[kind][x]]
  IN [ok |-> FALSE,
      st |-> [groups |-> kept("groups"), memberships |-> kept("memberships"),
              people |-> kept("people"), quotes |-> kept("quotes"),
              invites |-> kept("invites")],
      writes |-> written]

SyncFail(p, actorId, groupId) ==
  /\ \A q \in Procs : calls[q].pc \in {"idle", "resumed"}
  /\ calls[p].started < MaxCalls
  /\ ensureAdmin(Store, getMembershipByUser(Store, groupId, actorId))
  /\ \E k \in 1..Len(syncUpdates(Store, groupId)) :
       /\ CommitSynced(syncGroupPermissionsFailing(Store, groupId, actorId, k), nextId, TRUE)
       /\ calls' = [calls EXCEPT ![p] =
                      [Idle EXCEPT !.pc = "failed", !.actorId = actorId,
                                   !.groupId = groupId,
                                   !.failed = syncUpdates(Store, groupId)[k],
                                   !.started = calls[p].started + 1]]

\* The same request sent again; it meets no failure.
SyncResume(p) ==
  /\ calls[p].pc = "failed"
  /\ CommitSynced(syncGroupPermissionsInternal(Store, calls[p].groupId,
                                               calls[p].actorId, TRUE),
                  nextId, TRUE)
  /\ calls' = [calls EXCEPT ![p].pc = "resumed"]

\* The rosters of a group that u1 owns.
FailRosters ==
  {roleOf \in SyncRosters : roleOf[1] = "owner" /\ \A m \in 2..Len(SyncUsers) : roleOf[m] # "owner"}

InitSyncFail ==
  \E roleOf \in FailRosters :
    \E choice \in [syncRequests(roleOf) -> AclChoices] :
      startFrom(syncStore(roleOf, choice))

\* The reconciles of a store run one after the other, and after the one
\* that resumes no update is left to fail: one invocation is followed.
FailProcs == {1}

NextSyncFail ==
  \/ \E p \in FailProcs, actorId \in Users, groupId \in GroupIds : SyncFail(p, actorId, groupId)
  \/ \E p \in FailProcs : SyncResume(p)

SpecSyncFail == InitSyncFail /\ [][NextSyncFail]_vars

(***************************************************************************)
(* The handlers that create documents, from the empty store, on rosters    *)
(* that joins and role changes vary, each run to completion.               *)
(***************************************************************************)
NextBorn ==
  \/ \E actorId \in FrameUsers : CreateGroupWithOwner(actorId)
  \/ \E actorId \in FrameUsers, typed \in Codes : JoinGroupByCode(actorId, typed)
  \/ \E actorId \in FrameUsers, groupId \in DOMAIN groups,
        membershipId \in DOMAIN memberships, newRole \in RequestedRoles :
       UpdateMemberRole(actorId, groupId, membershipId, newRole)
  \/ \E actorId \in FrameUsers, groupId \in DOMAIN groups : CreateInvite(actorId, groupId)
  \/ \E actorId \in FrameUsers, groupId \in DOMAIN groups, name \in PlaceholderNames :
       CreatePlaceholderPerson(actorId, groupId, name)
  \/ \E actorId \in FrameUsers, groupId \in DOMAIN groups, personId \in DOMAIN people :
       CreateQuote(actorId, groupId, personId)
  \/ \E actorId \in FrameUsers, groupId \in DOMAIN groups, placeholderId \in DOMAIN people :
       ClaimPlaceholder(actorId, groupId, placeholderId)
  \/ \E actorId \in FrameUsers, groupId \in DOMAIN groups : UnclaimPlaceholder(actorId, groupId)

SpecBorn == Init /\ [][NextBorn]_vars

(***************************************************************************)
(* joinGroupByCode request by request (index.js:464-541), for joins that   *)
(* overlap: the lookups, the createDocument of the Person, the             *)
(* createDocument of the Membership, the reconcile.  A call keeps the id   *)
(* of the Person it created in `placeholder` and the Membership it is      *)
(* about to create in `snapshot`.                                          *)
(***************************************************************************)
\* The unique index on (groupId, userId) of a Membership
\* (appwrite-setup.mjs:292): the store refuses a second document of a pair.
membership_group_user(coll, groupId, userId) ==
  \A m \in DOMAIN coll : ~(coll[m].groupId = groupId /\ coll[m].userId = userId)

\* index.js:465-499: the invite and the caller's Membership are looked up.
JoinLookup(p, actorId, typed) ==
  /\ calls[p].pc \in Resting
  /\ calls[p].started < MaxCalls
  /\ LET invite == joinInvite(Store, typed)
     IN IF invite = 0
        THEN Reject /\ calls' = [calls EXCEPT ![p] = [Idle EXCEPT !.pc = "failed",
                                                     !.started = calls[p].started + 1]]
        ELSE /\ Commit(Store, nextId,
                       IF joinExisting(Store, invites[invite].groupId, actorId) # 0
                       THEN "ok" ELSE "pending", {})
             /\ calls' = [calls EXCEPT ![p] =
                            [Idle EXCEPT !.pc = IF joinExisting(Store, invites[invite].groupId,
                                                                actorId) # 0
                                                THEN "done" ELSE "person",
                                         !.actorId = actorId,
                                         !.groupId = invites[invite].groupId,
                                         !.started = calls[p].started + 1]]

\* index.js:501-518: the roster is listed and the Person created.
JoinPerson(p) ==
  /\ calls[p].pc = "person"
  /\ nextId.people <= MaxPeople
  /\ LET whole == joinCreate(Store, nextId, calls[p].groupId, calls[p].actorId,
                             joinDisplayName(DisplayNameOf(calls[p].actorId)))
     IN /\ Commit([Store EXCEPT !.people = whole.people], bump(nextId, "people"),
                  "pending", {})
        /\ calls' = [calls EXCEPT ![p].pc = "membership",
                                  ![p].placeholder = nextId.people,
                                  ![p].snapshot = <<whole.memberships[nextId.memberships]>>]

\* index.js:520-536: the Membership is created, unless the store refuses it.
JoinMembership(p) ==
  /\ calls[p].pc = "membership"
  /\ IF membership_group_user(memberships, calls[p].groupId, calls[p].actorId)
     THEN /\ nextId.memberships <= MaxMemberships
          /\ Commit([Store EXCEPT !.memberships =
                       createDocument(@, nextId.memberships, calls[p].snapshot[1])],
                    bump(nextId, "memberships"), "pending", {})
          /\ calls' = [calls EXCEPT ![p].pc = "sync"]
     ELSE Reject /\ calls' = [calls EXCEPT ![p].pc = "conflict"]

\* index.js:538: the reconcile that ends the join.
JoinSync(p) ==
  /\ calls[p].pc = "sync"
  /\ CommitSynced(syncGroupPermissionsInternal(Store, calls[p].groupId, calls[p].actorId,
                                               joinEnforceAdmin),
                  nextId, FALSE)
  /\ calls' = [calls EXCEPT ![p].pc = "done"]

NextJoins ==
  \/ \E p \in Procs, actorId \in Users, typed \in TypedCodes : JoinLookup(p, actorId, typed)
  \/ \E p \in Procs : JoinPerson(p)
  \/ \E p \in Procs : JoinMembership(p)
  \/ \E p \in Procs : JoinSync(p)

SpecJoins == InitMembers /\ [][NextJoins]_vars

(***************************************************************************)
(* createQuote and claimPlaceholder request by request, for calls that     *)
(* overlap.  A createQuote is its reads (index.js:581-588) and its         *)
(* createDocument (590-607).  A claimPlaceholder is its reads (634-653),   *)
(* one updateDocument per Quote its listing returned (655-662), the        *)
(* deleteDocument of the placeholder (664) and the updateDocument of the   *)
(* Membership (666-671).  A call keeps the Person it names in              *)
(* `placeholder`, the Quotes it still has to move in `listed`, and the     *)
(* Membership and the placeholder it read in `snapshot`.                   *)
(***************************************************************************)
\* index.js:581-588: the caller's Membership and the Person are read.
QuoteCheck(p, actorId, groupId, personId) ==
  /\ calls[p].pc \in Resting
  /\ calls[p].started < MaxCalls
  /\ IF \/ getMembershipByUser(Store, groupId, actorId) = 0
        \/ personId \notin DOMAIN people
        \/ people[personId].groupId # groupId
     THEN Reject /\ calls' = [calls EXCEPT ![p] = [Idle EXCEPT !.pc = "failed",
                                                   !.started = calls[p].started + 1]]
     ELSE /\ Commit(Store, nextId, "pending", {})
          /\ calls' = [calls EXCEPT ![p] =
                         [Idle EXCEPT !.pc = "quoting", !.actorId = actorId,
                                      !.groupId = groupId, !.placeholder = personId,
                                      !.started = calls[p].started + 1]]

\* index.js:590-607: the roster is listed and the Quote created.
QuoteCreate(p) ==
  /\ calls[p].pc = "quoting"
  /\ nextId.quotes <= ClaimQuotes + MaxQuotes
  /\ LET roster == listGroupMembers(Store, calls[p].groupId)
         memberIds == memberIdsOf(Store, roster)
         adminIds == adminIdsOf(Store, roster)
     IN Commit([Store EXCEPT !.quotes = createDocument(@, nextId.quotes,
                   [groupId |-> calls[p].groupId, personId |-> calls[p].placeholder,
                    sourcePlaceholderId |-> 0,
                    permissions |-> quotePermissions(memberIds, adminIds)])],
               bump(nextId, "quotes"), "ok", {})
  /\ calls' = [calls EXCEPT ![p].pc = "done"]

\* index.js:634-653: the checks of a claim and the listing of the Quotes.
ClaimCheck(p, actorId, groupId, placeholderId) ==
  /\ calls[p].pc \in Resting
  /\ calls[p].started < MaxCalls
  /\ IF ~claimPlaceholderAllowed(Store, actorId, groupId, placeholderId)
     THEN Reject /\ calls' = [calls EXCEPT ![p] = [Idle EXCEPT !.pc = "failed",
                                                   !.started = calls[p].started + 1]]
     ELSE /\ Commit(Store, nextId, "pending", {})
          /\ calls' = [calls EXCEPT ![p] =
                         [Idle EXCEPT !.pc = "claiming", !.actorId = actorId,
                                      !.groupId = groupId, !.placeholder = placeholderId,
                                      !.listed = claimedQuotes(Store, groupId, placeholderId),
                                      !.snapshot =
                                         <<getMembershipByUser(Store, groupId, actorId),
                                           memberships[getMembershipByUser(Store, groupId,
                                                                           actorId)].personId>>,
                                      !.code = people[placeholderId].name,
                                      !.started = calls[p].started + 1]]

\* index.js:655-662: the next Quote of the listing is moved to the caller's
\* Person.
ClaimMove(p) ==
  /\ calls[p].pc = "claiming"
  /\ calls[p].listed # {}
  /\ LET quote == Head(ascending(calls[p].listed))
     IN /\ Commit([Store EXCEPT !.quotes[quote].personId = calls[p].snapshot[2],
                                !.quotes[quote].sourcePlaceholderId = calls[p].placeholder],
                  nextId, "pending", {})
        /\ calls' = [calls EXCEPT ![p].listed = @ \ {quote}]

\* index.js:664: the placeholder is deleted; the store throws when the
\* document is gone.
ClaimDelete(p) ==
  /\ calls[p].pc = "claiming"
  /\ calls[p].listed = {}
  /\ IF calls[p].placeholder \in DOMAIN people
     THEN /\ Commit([Store EXCEPT !.people = deleteDocument(@, calls[p].placeholder)],
                    nextId, "pending", {})
          /\ calls' = [calls EXCEPT ![p].pc = "recording"]
     ELSE Reject /\ calls' = [calls EXCEPT ![p].pc = "failed"]

\* index.js:666-673: the claim is recorded on the Membership.
ClaimRecord(p) ==
  /\ calls[p].pc = "recording"
  /\ Commit([Store EXCEPT
               !.memberships[calls[p].snapshot[1]].claimedPlaceholderId =
                  calls[p].placeholder,
               !.memberships[calls[p].snapshot[1]].claimedPlaceholderName = calls[p].code],
            nextId, "ok", {})
  /\ calls' = [calls EXCEPT ![p].pc = "done"]

NextClaimRace ==
  \/ \E p \in Procs, actorId \in Users, groupId \in DOMAIN groups,
        personId \in DOMAIN people : QuoteCheck(p, actorId, groupId, personId)
  \/ \E p \in Procs : QuoteCreate(p)
  \/ \E p \in Procs, actorId \in Users, groupId \in DOMAIN groups,
        placeholderId \in DOMAIN people : ClaimCheck(p, actorId, groupId, placeholderId)
  \/ \E p \in Procs : ClaimMove(p)
  \/ \E p \in Procs : ClaimDelete(p)
  \/ \E p \in Procs : ClaimRecord(p)

SpecClaimRace == InitClaims /\ [][NextClaimRace]_vars

(***************************************************************************)
(* removePerson write by write (index.js:898-952): the checks, then one    *)
(* deleteDocument per step.  The requests are served one after the other.  *)
(* A call keeps the deletions it still has to issue in `snapshot`.         *)
(***************************************************************************)
\* index.js:905-927: the checks that precede the deletions.
removePersonAllowed(st, actorId, groupId, personId, force) ==
  /\ ensureAdmin(st, getMembershipByUser(st, groupId, actorId))
  /\ personId \in DOMAIN st.people
  /\ st.people[personId].groupId = groupId
  /\ st.people[personId].isPlaceholder
  /\ quotesOfPerson(st, groupId, personId) = {} \/ force

\* Variant: the Person is deleted before the Quotes that reference it.
removePersonDeletions_personFirst(st, groupId, personId) ==
  LET listing == ascending(quotesOfPerson(st, groupId, personId))
  IN <<<<"people", personId>>>> \o [i \in 1..Len(listing) |-> <<"quotes", listing[i]>>]

\* index.js:929-949: the deleteDocument calls in the order issued.
removePersonDeletions(st, groupId, personId) ==
  LET listing == ascending(quotesOfPerson(st, groupId, personId))
  IN [i \in 1..Len(listing) |-> <<"quotes", listing[i]>>] \o <<<<"people", personId>>>>

RemovePersonBegin(p, actorId, groupId, personId, force) ==
  /\ \A q \in Procs : calls[q].pc \in {"idle", "removed"}
  /\ calls[p].started < MaxCalls
  /\ IF ~removePersonAllowed(Store, actorId, groupId, personId, force)
     THEN Reject /\ calls' = Ended
     ELSE /\ Commit(Store, nextId, "pending", {})
          /\ calls' = [Ended EXCEPT ![p] =
                         [Idle EXCEPT !.pc = "removing", !.actorId = actorId,
                                      !.groupId = groupId, !.placeholder = personId,
                                      !.force = force,
                                      !.listed = quotesOfPerson(Store, groupId, personId),
                                      !.snapshot =
                                         removePersonDeletions(Store, groupId, personId),
                                      !.started = calls[p].started + 1]]

RemovePersonDelete(p) ==
  /\ calls[p].pc = "removing"
  /\ LET next == Head(calls[p].snapshot)
         last == Len(calls[p].snapshot) = 1
     IN /\ Commit([Store EXCEPT ![next[1]] = deleteDocument(@, next[2])], nextId,
                  IF last THEN "ok" ELSE "pending", {})
        /\ calls' = [calls EXCEPT ![p].snapshot = Tail(@),
                                  ![p].pc = IF last THEN "removed" ELSE "removing"]

NextRemovePerson ==
  \/ \E p \in Procs, actorId \in Users, groupId \in DOMAIN groups,
        personId \in DOMAIN people \cup {nextId.people}, force \in BOOLEAN :
       RemovePersonBegin(p, actorId, groupId, personId, force)
  \/ \E p \in Procs : RemovePersonDelete(p)

SpecRemovePerson == InitClaims /\ [][NextRemovePerson]_vars

(***************************************************************************)
(* An unclaimPlaceholder request that stops between two of its writes and  *)
(* the same request sent again.  A call remembers the placeholder the      *)
(* request created before it stopped and the Quotes its listing returned.  *)
(* The slots of the calls that have ended are cleared when a request       *)
(* starts.                                                                 *)
(***************************************************************************)
unclaimLength(st, actorId, groupId) ==
  LET membershipId == getMembershipByUser(st, groupId, actorId)
  IN Cardinality(unclaimedQuotes(st, groupId,
                                 st.memberships[membershipId].claimedPlaceholderId)) + 2

\* index.js:696-730 up to the write after which the request stops: the
\* createDocument of the placeholder, the updates of the Quotes in the order
\* of the listing, the update of the Membership.
unclaimWrites(st, actorId, groupId, newId, done) ==
  LET membershipId == getMembershipByUser(st, groupId, actorId)
      whole == unclaimPlaceholder(st, actorId, groupId, newId)
      listing == ascending(unclaimedQuotes(st, groupId,
                             st.memberships[membershipId].claimedPlaceholderId))
      moved == {listing[i] : i \in 1..(IF done - 1 < Len(listing) THEN done - 1
                                       ELSE Len(listing))}
  IN [groups |-> st.groups,
      memberships |-> IF done >= Len(listing) + 2 THEN whole.memberships
                      ELSE st.memberships,
      people |-> IF done >= 1 THEN whole.people ELSE st.people,
      quotes |-> [q \in DOMAIN st.quotes |->
                    IF q \in moved THEN whole.quotes[q] ELSE st.quotes[q]],
      invites |-> st.invites]

\* A claim that runs to its end while no unclaim is waiting to be sent again.
UnclaimSetup(actorId, groupId, placeholderId) ==
  /\ \A q \in Procs : calls[q].pc \in {"idle", "retried", "refused"}
  /\ claimPlaceholderAllowed(Store, actorId, groupId, placeholderId)
  /\ Commit(claimPlaceholder(Store, actorId, groupId, placeholderId), nextId, "ok", {})
  /\ calls' = Ended

UnclaimAbandon(p, actorId, groupId, done) ==
  /\ \A q \in Procs : calls[q].pc \in {"idle", "retried", "refused"}
  /\ calls[p].started < MaxCalls
  /\ unclaimPlaceholderAllowed(Store, actorId, groupId)
  /\ nextId.people <= MaxPeople
  /\ done < unclaimLength(Store, actorId, groupId)
  /\ Commit(unclaimWrites(Store, actorId, groupId, nextId.people, done),
            IF done >= 1 THEN bump(nextId, "people") ELSE nextId, "abandoned", {})
  /\ calls' = [Ended EXCEPT ![p] =
                 [Idle EXCEPT !.pc = "abandoned", !.actorId = actorId, !.groupId = groupId,
                              !.placeholder = IF done >= 1 THEN nextId.people ELSE 0,
                              !.listed =
                                 unclaimedQuotes(Store, groupId,
                                   memberships[getMembershipByUser(Store, groupId, actorId)]
                                     .claimedPlaceholderId),
                              !.started = calls[p].started + 1]]

\* index.js:676-733 for the payload of the request that stopped.
UnclaimRetry(p) ==
  /\ calls[p].pc = "abandoned"
  /\ IF ~unclaimPlaceholderAllowed(Store, calls[p].actorId, calls[p].groupId)
     THEN Reject /\ calls' = [calls EXCEPT ![p].pc = "refused"]
     ELSE /\ Commit(unclaimPlaceholder(Store, calls[p].actorId, calls[p].groupId,
                                       nextId.people),
                    bump(nextId, "people"), "ok", {})
          /\ calls' = [calls EXCEPT ![p].pc = "retried"]

NextUnclaimRetry ==
  \/ \E actorId \in Users, groupId \in DOMAIN groups, placeholderId \in DOMAIN people :
       UnclaimSetup(actorId, groupId, placeholderId)
  \/ \E p \in Procs, actorId \in Users, groupId \in DOMAIN groups,
        done \in 0..(ClaimQuotes + 1) :
       UnclaimAbandon(p, actorId, groupId, done)
  \/ \E p \in Procs : UnclaimRetry(p)

SpecUnclaimRetry == InitClaims /\ [][NextUnclaimRetry]_vars

(***************************************************************************)
(* A transferOwnership request that stops between two of its writes and    *)
(* the same request sent again by the same actor.  The slots of the calls   *)
(* that have ended are cleared when a request starts.                       *)
(***************************************************************************)
TransferWrites == 3

\* index.js:794-813 up to the write after which the request stops: the
\* first `done` of the three updateDocument calls reached the store.
transferWrites(st, groupId, currentOwnerMembershipId, nextOwnerMembershipId, done) ==
  LET st1 == IF done >= 1
             THEN setOwnerId(st, groupId, st.memberships[nextOwnerMembershipId].userId)
             ELSE st
      st2 == IF done >= 2 THEN setRole(st1, currentOwnerMembershipId, "admin") ELSE st1
  IN IF done >= 3 THEN setRole(st2, nextOwnerMembershipId, "owner") ELSE st2

TransferAbandon(p, actorId, groupId, cur, nxt, done) ==
  /\ \A q \in Procs : calls[q].pc \in {"idle", "retried", "refused"}
  /\ calls[p].started < MaxCalls
  /\ transferOwnershipAllowed(Store, actorId, groupId, cur, nxt)
  /\ Commit(transferWrites(Store, groupId, cur, nxt, done), nextId, "abandoned", {})
  /\ calls' = [Ended EXCEPT ![p] =
                 [Idle EXCEPT !.pc = "abandoned", !.actorId = actorId,
                              !.groupId = groupId, !.currentOwner = cur,
                              !.nextOwner = nxt, !.started = calls[p].started + 1]]

\* index.js:778-817 for the payload of the request that stopped.
TransferRetry(p) ==
  /\ calls[p].pc = "abandoned"
  /\ IF ~transferOwnershipAllowed(Store, calls[p].actorId, calls[p].groupId,
                                  calls[p].currentOwner, calls[p].nextOwner)
     THEN Reject /\ calls' = [calls EXCEPT ![p].pc = "refused"]
     ELSE /\ CommitSynced(syncGroupPermissionsInternal(
                            transferWrites(Store, calls[p].groupId, calls[p].currentOwner,
                                           calls[p].nextOwner, TransferWrites),
                            calls[p].groupId, calls[p].actorId, TRUE),
                          nextId, FALSE)
          /\ calls' = [calls EXCEPT ![p].pc = "retried"]

NextTransferRetry ==
  \/ \E p \in Procs, actorId \in Users, groupId \in DOMAIN groups,
        cur \in DOMAIN memberships, nxt \in DOMAIN memberships, done \in 0..TransferWrites :
       TransferAbandon(p, actorId, groupId, cur, nxt, done)
  \/ \E p \in Procs : TransferRetry(p)

SpecTransferRetry == InitConc /\ [][NextTransferRetry]_vars

(***************************************************************************)
(* The dispatcher (index.js:953-998): a request is received, handed to the *)
(* handler its action names, and answered.  Requests are served one after  *)
(* the other.  A call records the action, the actor the headers name,      *)
(* whether a document-store client was constructed (index.js:985-990) and  *)
(* the status of the response.                                             *)
(***************************************************************************)
\* String.prototype.toLowerCase on the header names a request may carry.
toLowerCase(text) ==
  CASE text = "X-Appwrite-User-Id" -> "x-appwrite-user-id"
    [] text = "X-Forwarded-For" -> "x-forwarded-for"
    [] OTHER -> text

\* index.js:155-163: the value of the first header whose name is
\* x-appwrite-user-id in any case, "" when there is none.  headers is the
\* sequence of <<name, value>> entries of req.headers.
getActorId(headers) ==
  LET named == {i \in 1..Len(headers) : toLowerCase(headers[i][1]) = "x-appwrite-user-id"}
  IN IF named = {} THEN "" ELSE headers[ascending(named)[1]][2]

\* Variant: a request without an actor is let through.
ensureActor_absent(actorId) == TRUE

\* index.js:181-185: does not throw.
ensureActor(actorId) == actorId # ""

\* index.js:954-970.
handlers ==
  {"createGroupWithOwner", "createInvite", "renameInvite", "deleteInvite",
   "joinGroupByCode", "createPlaceholderPerson", "createQuote", "deleteQuote",
   "removePerson", "claimPlaceholder", "unclaimPlaceholder", "updateMemberRole",
   "transferOwnership", "removeMember", "syncGroupPermissions"}

\* payload.action of the requests: a handler, nothing, or an unknown name.
RequestedActions == handlers \cup {"", "dropDatabase"}

\* req.headers of the requests: none; the user id under the name Appwrite
\* sets, in lower case and in mixed case; an empty user id; another header
\* only; an empty user id followed by a second entry that names a user.
RequestHeaders ==
  {<<>>,
   <<<<"x-appwrite-user-id", "u1">>>>,
   <<<<"X-Forwarded-For", "u1">>, <<"X-Appwrite-User-Id", "u1">>>>,
   <<<<"x-appwrite-user-id", "">>>>,
   <<<<"X-Forwarded-For", "u1">>>>,
   <<<<"x-appwrite-user-id", "">>, <<"X-Appwrite-User-Id", "u1">>>>}

\* The connection the requests arrive on, and the number of requests it
\* carries.
DispatchProcs == {1}
MaxRequests == 3

\* index.js:973-991: the request up to the call of its handler.
DispatchRequest(p, headers, action) ==
  /\ calls[p].pc \in {"idle", "responded"}
  /\ calls[p].started < MaxRequests
  /\ UNCHANGED <<groups, memberships, people, quotes, invites, nextId, writes>>
  /\ LET actorId == getActorId(headers)
         received == [Idle EXCEPT !.actorId = actorId,
                                  !.started = calls[p].started + 1]
     IN IF action \notin handlers
        THEN /\ calls' = [calls EXCEPT ![p] =
                            [received EXCEPT !.pc = "responded", !.status = 400]]
             /\ result' = "error"
        ELSE IF ~ensureActor(actorId)
        THEN /\ calls' = [calls EXCEPT ![p] =
                            [received EXCEPT !.pc = "responded", !.status = 500]]
             /\ result' = "error"
        ELSE /\ calls' = [calls EXCEPT ![p] =
                            [received EXCEPT !.pc = "handler", !.action = action,
                                             !.client = TRUE]]
             /\ result' = "pending"

\* index.js:993: the call is at its handler, which has not run yet.
AtHandler(p, action) ==
  /\ calls[p].pc = "handler"
  /\ calls[p].action = action
  /\ result = "pending"

\* index.js:994-997: the response, 200 or, when the handler threw, 500.
DispatchRespond(p) ==
  /\ calls[p].pc = "handler"
  /\ result # "pending"
  /\ UNCHANGED <<groups, memberships, people, quotes, invites, nextId, writes, result>>
  /\ calls' = [calls EXCEPT ![p] =
                 [Idle EXCEPT !.pc = "responded", !.actorId = calls[p].actorId,
                              !.client = TRUE, !.started = calls[p].started,
                              !.status = IF result = "ok" THEN 200 ELSE 500]]

NextDispatch ==
  \/ \E p \in DispatchProcs, headers \in RequestHeaders, action \in RequestedActions :
       DispatchRequest(p, headers, action)
  \/ \E p \in DispatchProcs : DispatchRespond(p)
  \/ \E p \in DispatchProcs :
       AtHandler(p, "createGroupWithOwner") /\ CreateGroupWithOwner(calls[p].actorId)
  \/ \E p \in DispatchProcs, groupId \in DOMAIN groups :
       AtHandler(p, "createInvite") /\ CreateInvite(calls[p].actorId, groupId)
  \/ \E p \in DispatchProcs, inviteId \in DOMAIN invites, name \in InviteNames :
       AtHandler(p, "renameInvite") /\ RenameInvite(calls[p].actorId, inviteId, name)
  \/ \E p \in DispatchProcs, inviteId \in DOMAIN invites :
       AtHandler(p, "deleteInvite") /\ DeleteInvite(calls[p].actorId, inviteId)
  \/ \E p \in DispatchProcs, typed \in TypedCodes :
       AtHandler(p, "joinGroupByCode") /\ JoinGroupByCode(calls[p].actorId, typed)
  \/ \E p \in DispatchProcs, groupId \in DOMAIN groups, name \in PlaceholderNames :
       /\ AtHandler(p, "createPlaceholderPerson")
       /\ CreatePlaceholderPerson(calls[p].actorId, groupId, name)
  \/ \E p \in DispatchProcs, groupId \in DOMAIN groups, personId \in DOMAIN people :
       AtHandler(p, "createQuote") /\ CreateQuote(calls[p].actorId, groupId, personId)
  \/ \E p \in DispatchProcs, groupId \in DOMAIN groups, quoteId \in DOMAIN quotes :
       AtHandler(p, "deleteQuote") /\ DeleteQuote(calls[p].actorId, groupId, quoteId)
  \/ \E p \in DispatchProcs, groupId \in DOMAIN groups, personId \in DOMAIN people,
        force \in BOOLEAN :
       AtHandler(p, "removePerson") /\ RemovePerson(calls[p].actorId, groupId, personId, force)
  \/ \E p \in DispatchProcs, groupId \in DOMAIN groups, placeholderId \in DOMAIN people :
       /\ AtHandler(p, "claimPlaceholder")
       /\ ClaimPlaceholder(calls[p].actorId, groupId, placeholderId)
  \/ \E p \in DispatchProcs, groupId \in DOMAIN groups :
       AtHandler(p, "unclaimPlaceholder") /\ UnclaimPlaceholder(calls[p].actorId, groupId)
  \/ \E p \in DispatchProcs, groupId \in DOMAIN groups, membershipId \in DOMAIN memberships,
        newRole \in RequestedRoles :
       /\ AtHandler(p, "updateMemberRole")
       /\ UpdateMemberRole(calls[p].actorId, groupId, membershipId, newRole)
  \/ \E p \in DispatchProcs, groupId \in DOMAIN groups, cur \in DOMAIN memberships,
        nxt \in DOMAIN memberships :
       /\ AtHandler(p, "transferOwnership")
       /\ TransferOwnership(calls[p].actorId, groupId, cur, nxt)
  \/ \E p \in DispatchProcs, groupId \in DOMAIN groups, membershipId \in DOMAIN memberships :
       AtHandler(p, "removeMember") /\ RemoveMember(calls[p].actorId, groupId, membershipId)
  \/ \E p \in DispatchProcs, groupId \in DOMAIN groups :
       AtHandler(p, "syncGroupPermissions") /\ SyncGroupPermissions(calls[p].actorId, groupId)

\* The requests reach an empty store or the group u1 has created.
InitDispatch == Init \/ InitMembers

SpecDispatch == InitDispatch /\ [][NextDispatch]_vars

(***************************************************************************)
(* Vocabulary of the properties.                                           *)
(***************************************************************************)
\* The users an ACL grants an action to.
Subjects(acl, action) == {acl[i].role : i \in {j \in DOMAIN acl : acl[j].action = action}}

MembershipsOf(groupId) == {m \in DOMAIN memberships : memberships[m].groupId = groupId}
OwnersOf(groupId) == {m \in MembershipsOf(groupId) : memberships[m].role = "owner"}
Members(groupId) == {memberships[m].userId : m \in MembershipsOf(groupId)}
Admins(groupId) ==
  {memberships[m].userId : m \in {n \in MembershipsOf(groupId) : memberships[n].role # "member"}}

\* The ACL the reconciler derives for a document from the roster it reads.
policyPermissions(st, groupId, kind, id) ==
  LET roster == listGroupMembers(st, groupId)
  IN desiredPermissions(st, kind, id, memberIdsOf(st, roster), adminIdsOf(st, roster),
                        ownerIdOf(st, roster))

(***************************************************************************)
(* Ownership (SpecRoles, SpecConc).                                        *)
(***************************************************************************)
\* C1: after any sequence of completed updateMemberRole and transferOwnership
\* calls on a group made by createGroupWithOwner, exactly one Membership of
\* the group has role owner.
C1_SingleOwnerAfterCalls ==
  \A groupId \in DOMAIN groups : Cardinality(OwnersOf(groupId)) = 1

\* C2: at every moment, the moments between the writes of a transfer in
\* flight and those of two overlapping transfers included, the group has an
\* owner Membership and no second one.
C2_SingleOwnerAtAllTimes ==
  \A groupId \in DOMAIN groups :
    \E m \in MembershipsOf(groupId) :
      /\ memberships[m].role = "owner"
      /\ \A n \in MembershipsOf(groupId) : memberships[n].role = "owner" => n = m

(***************************************************************************)
(* Removal (SpecRemove).                                                   *)
(***************************************************************************)
\* C3: a removeMember call of a plain member that names another user's
\* Membership is rejected and leaves that Membership in place; a call that
\* deletes another user's Membership comes from an admin or the owner, and
\* from the owner when the Membership is an admin's.
C3_RemoveMemberAuthorized ==
  [][\A actorId \in Users, groupId \in GroupIds, membershipId \in MembershipIds :
       LET actorMembership == getMembershipByUser(Store, groupId, actorId)
       IN (/\ actorMembership # 0
           /\ membershipId \in MembershipsOf(groupId)
           /\ memberships[membershipId].userId # actorId
           /\ RemoveMember(actorId, groupId, membershipId))
          => /\ memberships[actorMembership].role = "member"
                  => result' = "error" /\ membershipId \in DOMAIN memberships'
             /\ membershipId \notin DOMAIN memberships'
                  => /\ memberships[actorMembership].role \in {"admin", "owner"}
                     /\ memberships[membershipId].role = "admin"
                          => memberships[actorMembership].role = "owner"]_vars

\* C4: a removeMember call that names the Membership with role owner, by
\* the owner or by anyone else, fails and the Membership is still there.
C4_OwnerNeverRemoved ==
  [][\A actorId \in Users, groupId \in GroupIds, membershipId \in MembershipIds :
       (/\ membershipId \in OwnersOf(groupId)
        /\ RemoveMember(actorId, groupId, membershipId))
       => result' = "error" /\ membershipId \in DOMAIN memberships']_vars

(***************************************************************************)
(* Reconciliation (SpecSync).                                              *)
(***************************************************************************)
\* C5: once a reconcile has completed, a reconcile that follows it with no
\* write in between, requested by any user, issues no updateDocument.
C5_ReconcileIdempotent ==
  result = "ok" =>
    \A actorId \in Users, groupId \in DOMAIN groups :
      syncGroupPermissionsInternal(Store, groupId, actorId, TRUE).writes = {}

\* A reconcile that found nothing to write, in a group with a plain member
\* whose Group document carries the ACL in the order an earlier reconcile
\* built it.
C5_Witness ==
  /\ result = "ok"
  /\ writes = {}
  /\ Members(1) # Admins(1)
  /\ Admins(1) # {}
  /\ groups[1].permissions = policyPermissions(Store, 1, "groups", 1)

\* C6: a completed reconcile updates a document of the group exactly when
\* the set of its ACL entries differs from the set of the policy ACL; an
\* update stores the policy ACL, any other document keeps its ACL, and in
\* the end every document carries the entries of the policy ACL.
C6_UpdateIffDifferent ==
  [][result' = "ok" =>
       \A groupId \in DOMAIN groups :
         \A d \in groupDocuments(Store, groupId) :
           LET current == Store[d[1]][d[2]].permissions
               desired == policyPermissions(Store, groupId, d[1], d[2])
               carried == Store'[d[1]][d[2]].permissions
           IN /\ d \in writes' <=> Range(current) # Range(desired)
              /\ d \in writes' => carried = desired
              /\ d \notin writes' => carried = current
              /\ Range(carried) = Range(desired)]_vars

\* A reconcile that rewrote one document and skipped another whose ACL has
\* the policy entries in another order.
C6_Witness ==
  /\ result = "ok"
  /\ writes # {}
  /\ \E d \in groupDocuments(Store, 1) \ writes :
       Store[d[1]][d[2]].permissions # policyPermissions(Store, 1, d[1], d[2])

\* C7: after a reconcile, a placeholder Person is update-permitted for all
\* members of the group and a Person that is not a placeholder only for its
\* admins.
C7_PersonUpdateByRole ==
  result = "ok" =>
    \A p \in DOMAIN people :
      Subjects(people[p].permissions, "update") =
        IF people[p].isPlaceholder THEN Members(people[p].groupId)
        ELSE Admins(people[p].groupId)

\* C8: the policy ACL of a Person grants read and update to exactly the
\* members, and delete to exactly the members for a placeholder and to
\* exactly the admins otherwise.
C8_PersonPolicy ==
  \A p \in DOMAIN people :
    LET groupId == people[p].groupId
        acl == policyPermissions(Store, groupId, "people", p)
    IN /\ Subjects(acl, "read") = Members(groupId)
       /\ Subjects(acl, "update") = Members(groupId)
       /\ Subjects(acl, "delete") =
            IF people[p].isPlaceholder THEN Members(groupId) ELSE Admins(groupId)
       /\ \A i \in DOMAIN acl : acl[i].action \in {"read", "update", "delete"}

\* A reconciled group with an admin, a plain member, a placeholder and a
\* member's Person.
C8_Witness ==
  /\ result = "ok"
  /\ Admins(1) # {}
  /\ Members(1) # Admins(1)
  /\ \E p, q \in DOMAIN people :
       /\ people[p].isPlaceholder /\ ~people[q].isPlaceholder
       /\ people[p].permissions = policyPermissions(Store, 1, "people", p)
       /\ people[q].permissions = policyPermissions(Store, 1, "people", q)

\* C9: the ACL the reconciler derives for the Group document grants read to
\* exactly the members, update to exactly the admins, and delete to exactly
\* one user: the owner Membership's user or, without one, the first admin of
\* the roster.
C9_GroupPolicy ==
  \A groupId \in DOMAIN groups :
    LET acl == policyPermissions(Store, groupId, "groups", groupId)
        roster == listGroupMembers(Store, groupId)
    IN /\ Subjects(acl, "read") = Members(groupId)
       /\ Subjects(acl, "update") = Admins(groupId)
       /\ Cardinality(Subjects(acl, "delete")) = 1
       /\ Subjects(acl, "delete") =
            IF OwnersOf(groupId) # {}
            THEN {memberships[CHOOSE m \in OwnersOf(groupId) : TRUE].userId}
            ELSE {adminIdsOf(Store, roster)[1]}

\* C10: the policy ACL of a Membership grants read to exactly the members,
\* and update and delete to exactly the admins and the Membership's user; a
\* plain member gets update and delete on no Membership but their own.
C10_MembershipPolicy ==
  \A m \in DOMAIN memberships :
    LET groupId == memberships[m].groupId
        acl == policyPermissions(Store, groupId, "memberships", m)
        own == Admins(groupId) \cup {memberships[m].userId}
    IN /\ Subjects(acl, "read") = Members(groupId)
       /\ Subjects(acl, "update") = own
       /\ Subjects(acl, "delete") = own
       /\ \A n \in MembershipsOf(groupId) :
            memberships[n].role = "member" =>
              /\ memberships[n].userId \in Subjects(acl, "update") <=> n = m
              /\ memberships[n].userId \in Subjects(acl, "delete") <=> n = m

\* A reconciled group with an admin and two plain members.
C10_Witness ==
  /\ result = "ok"
  /\ Admins(1) # {}
  /\ \E m, n \in MembershipsOf(1) :
       /\ m # n
       /\ memberships[m].role = "member" /\ memberships[n].role = "member"
       /\ memberships[m].permissions = policyPermissions(Store, 1, "memberships", m)

(***************************************************************************)
(* Quotes and invites (SpecMembers, SpecSync).                             *)
(***************************************************************************)
\* C11: the ACL createQuote attaches to the new Quote is the policy ACL of
\* the roster at that moment: read and update for exactly the members of the
\* group, delete for exactly its admins.
C11_QuotePolicy ==
  [][\A q \in DOMAIN quotes' \ DOMAIN quotes :
       LET groupId == quotes'[q].groupId
           acl == quotes'[q].permissions
       IN /\ acl = policyPermissions(Store, groupId, "quotes", q)
          /\ Subjects(acl, "read") = Members(groupId)
          /\ Subjects(acl, "update") = Members(groupId)
          /\ Subjects(acl, "delete") = Admins(groupId)
          /\ \A i \in DOMAIN acl : acl[i].action \in {"read", "update", "delete"}]_vars

\* A Quote created in a group that has a plain member and two admins.
C11_Witness ==
  /\ result = "ok"
  /\ Members(1) # Admins(1)
  /\ Cardinality(Admins(1)) = 2
  /\ \E q \in DOMAIN quotes :
       quotes[q].permissions = policyPermissions(Store, 1, "quotes", q)

\* C12: the policy ACL of an Invite grants read to the any-authenticated-user
\* subject whatever the roster, and update and delete to exactly the admins;
\* after a reconcile the stored ACL of every Invite of the group grants
\* update and delete to its admins and to no plain member or outsider.
C12_InvitePolicy ==
  \A i \in DOMAIN invites :
    LET groupId == invites[i].groupId
        acl == policyPermissions(Store, groupId, "invites", i)
        stored == invites[i].permissions
    IN /\ Subjects(acl, "read") = {AnyUser}
       /\ Subjects(acl, "update") = Admins(groupId)
       /\ Subjects(acl, "delete") = Admins(groupId)
       /\ \A k \in DOMAIN acl : acl[k].action \in {"read", "update", "delete"}
       /\ result = "ok" =>
            /\ Subjects(stored, "read") = {AnyUser}
            /\ Subjects(stored, "update") = Admins(groupId)
            /\ Subjects(stored, "delete") = Admins(groupId)
            /\ \A u \in Users \ Admins(groupId) :
                 u \notin Subjects(stored, "update") \cup Subjects(stored, "delete")

\* A reconcile that rewrote an Invite in a group with an admin, a plain
\* member and an outsider.
C12_Witness ==
  /\ result = "ok"
  /\ Admins(1) # {}
  /\ Members(1) # Admins(1)
  /\ Users \ Members(1) # {}
  /\ \E i \in DOMAIN invites : <<"invites", i>> \in writes

(***************************************************************************)
(* Invite codes (SpecInvite, SpecInviteLoop).                              *)
(***************************************************************************)
\* C13: createInvite calls that overlap, for one group or for two, each
\* yield an Invite: no call whose lookup found its code free ends without
\* its document, and at all times no two Invites carry the same code.
C13_ConcurrentInvites ==
  /\ \A i, j \in DOMAIN invites : invites[i].code = invites[j].code => i = j
  /\ \A p \in Procs :
       /\ calls[p].pc = "done" => calls[p].invite \in DOMAIN invites
       /\ calls[p].pc \in Resting /\ calls[p].code # "" => calls[p].pc = "done"

\* C14: a createInviteDocument whose every draw collides with the code of
\* an existing Invite makes exactly 5 lookups, creates nothing and fails;
\* one whose k-th draw is the first that does not collide makes exactly k
\* lookups (k <= 5) and creates exactly one Invite, carrying that code.
C14_RetryLoop ==
  /\ [](\A p \in Procs :
          /\ calls[p].attempts <= 5
          /\ calls[p].pc = "draw" => calls[p].attempts < 5 /\ calls[p].code = ""
          /\ calls[p].pc = "failed" =>
               calls[p].attempts = 5 /\ calls[p].code = "" /\ calls[p].invite = 0
          /\ calls[p].pc \in {"create", "done"} =>
               calls[p].attempts \in 1..5 /\ calls[p].code # ""
          /\ calls[p].pc = "done" =>
               /\ calls[p].invite \in DOMAIN invites
               /\ invites[calls[p].invite].code = calls[p].code
          /\ calls[p].pc # "conflict")
  /\ [][\A p \in Procs :
         \* a lookup that collides is counted and creates nothing
         /\ (calls[p].pc = "draw" /\ calls'[p].pc \in {"draw", "failed"}) =>
              /\ calls'[p].attempts = calls[p].attempts + 1
              /\ invites' = invites
              /\ calls'[p].pc = "failed" => result' = "error"
         \* the first lookup that does not collide ends the drawing
         /\ (calls[p].pc = "draw" /\ calls'[p].pc = "create") =>
              /\ calls'[p].attempts = calls[p].attempts + 1
              /\ ~codeExists(invites, calls'[p].code)
              /\ invites' = invites
         \* and is followed by the creation of one Invite
         /\ calls[p].pc = "create" /\ calls'[p].pc # "create" =>
              /\ calls'[p].pc = "done"
              /\ calls'[p].attempts = calls[p].attempts
              /\ DOMAIN invites' = DOMAIN invites \cup {calls'[p].invite}
              /\ calls'[p].invite \notin DOMAIN invites
              /\ \A i \in DOMAIN invites : invites'[i] = invites[i]
              /\ result' = "ok"]_vars

\* One call created its Invite at its third or a later lookup, and the
\* other one, finding every code taken, failed.
C14_Witness ==
  \E p, q \in Procs :
    /\ calls[p].pc = "done"
    /\ calls[p].attempts >= 3
    /\ calls[q].pc = "failed"
    /\ result = "error"

(***************************************************************************)
(* Joining and roles (SpecMembers).                                        *)
(***************************************************************************)
MembershipsOfUser(groupId, userId) ==
  {m \in MembershipsOf(groupId) : memberships[m].userId = userId}
PeopleOfUser(groupId, userId) ==
  {p \in DOMAIN people : people[p].groupId = groupId /\ people[p].userId = userId}

\* C15: a joinGroupByCode by a user who already has a Membership in the
\* invite's group succeeds with that Membership and creates, updates and
\* deletes no document; so at all times each user of a group has exactly
\* one Membership and exactly one Person in it.
C15_JoinIdempotent ==
  /\ [](\A groupId \in DOMAIN groups : \A u \in Members(groupId) :
          /\ Cardinality(MembershipsOfUser(groupId, u)) = 1
          /\ Cardinality(PeopleOfUser(groupId, u)) = 1)
  /\ [][\A typed \in TypedCodes : \A actorId \in Users :
         LET i == joinInvite(Store, typed)
             groupId == IF i = 0 THEN 0 ELSE invites[i].groupId
         IN (/\ i # 0
             /\ MembershipsOfUser(groupId, actorId) # {}
             /\ JoinGroupByCode(actorId, typed))
            => /\ result' = "ok"
               /\ writes' = {}
               /\ <<groups, memberships, people, quotes, invites, nextId>>' =
                    <<groups, memberships, people, quotes, invites, nextId>>
               /\ MembershipsOfUser(groupId, actorId) =
                    {joinExisting(Store, groupId, actorId)}]_vars

\* The state a repeated join by u2 starts from and returns to: u2 is a
\* member, the call succeeded, and the group holds nothing but its two
\* members' documents.
C15_Witness ==
  /\ result = "ok"
  /\ writes = {}
  /\ MembershipsOfUser(1, "u2") # {}
  /\ nextId.quotes = 1
  /\ \A p \in DOMAIN people : ~people[p].isPlaceholder
  /\ \A m \in MembershipsOf(1) : memberships[m].role # "admin"

\* The documents of a group whose stored ACL grants read to a user.
ReadableBy(st, groupId, userId) ==
  {d \in groupDocuments(st, groupId) :
     userId \in Subjects(st[d[1]][d[2]].permissions, "read")}

\* C16: a joinGroupByCode by a user without a Membership in the invite's
\* group succeeds, creates exactly one Person (not a placeholder, userId the
\* caller) and exactly one Membership (role member, personId that Person),
\* changes the role of no existing Membership, and leaves the caller with
\* read on the Group and on every Membership, Person and Quote of the group.
C16_FirstJoin ==
  [][\A typed \in TypedCodes : \A actorId \in Users :
       LET i == joinInvite(Store, typed)
           groupId == IF i = 0 THEN 0 ELSE invites[i].groupId
       IN (/\ i # 0
           /\ MembershipsOfUser(groupId, actorId) = {}
           /\ JoinGroupByCode(actorId, typed))
          => /\ result' = "ok"
             /\ \E m \in DOMAIN memberships' \ DOMAIN memberships,
                   p \in DOMAIN people' \ DOMAIN people :
                  /\ DOMAIN memberships' = DOMAIN memberships \cup {m}
                  /\ DOMAIN people' = DOMAIN people \cup {p}
                  /\ memberships'[m].groupId = groupId
                  /\ memberships'[m].userId = actorId
                  /\ memberships'[m].role = "member"
                  /\ memberships'[m].personId = p
                  /\ people'[p].groupId = groupId
                  /\ people'[p].userId = actorId
                  /\ ~people'[p].isPlaceholder
             /\ \A n \in DOMAIN memberships : memberships'[n].role = memberships[n].role
             /\ \A p \in DOMAIN people :
                  /\ people'[p].userId = people[p].userId
                  /\ people'[p].isPlaceholder = people[p].isPlaceholder
             /\ DOMAIN groups' = DOMAIN groups
             /\ DOMAIN quotes' = DOMAIN quotes
             /\ DOMAIN invites' = DOMAIN invites
             /\ LET after == [groups |-> groups', memberships |-> memberships',
                              people |-> people', quotes |-> quotes',
                              invites |-> invites']
                IN \A d \in groupDocuments(after, groupId) :
                     d[1] # "invites" => d \in ReadableBy(after, groupId, actorId)]_vars

\* u3 joined last, into a group that already had an admin besides the owner,
\* a placeholder and a Quote, and reads every document of it.
C16_Witness ==
  /\ result = "ok"
  /\ \E m \in MembershipsOfUser(1, "u3") :
       /\ \A n \in MembershipsOf(1) : n <= m
       /\ memberships[m].role = "member"
  /\ \E n \in MembershipsOf(1) : memberships[n].role = "admin"
  /\ \E p \in DOMAIN people : people[p].isPlaceholder
  /\ DOMAIN quotes # {}
  /\ ReadableBy(Store, 1, "u3") = {d \in groupDocuments(Store, 1) : d[1] # "invites"}

\* C17: updateMemberRole sets the role of the target only when the
\* target is a Membership of the named group whose role is not owner and
\* either the new role is admin and the actor is an admin or the owner of
\* the group, or the new role is member and the actor is its owner; in any
\* other case, a new role of owner included, it fails and changes no role.
\* It changes no other Membership's role and makes no Membership owner.
C17_UpdateMemberRole ==
  [][\/ result' = "error" /\ memberships' = memberships
     \/ \A actorId \in Users, groupId \in DOMAIN groups, membershipId \in MembershipIds,
          newRole \in RequestedRoles :
       LET permitted ==
             /\ membershipId \in MembershipsOf(groupId)
             /\ memberships[membershipId].role # "owner"
             /\ \/ newRole = "admin" /\ actorId \in Admins(groupId)
                \/ /\ newRole = "member"
                   /\ \E o \in OwnersOf(groupId) : memberships[o].userId = actorId
           rolesKept ==
             \A n \in DOMAIN memberships :
               /\ n \in DOMAIN memberships'
               /\ n # membershipId => memberships'[n].role = memberships[n].role
               /\ memberships'[n].role = "owner" => memberships[n].role = "owner"
           settled ==
             IF permitted THEN rolesKept
             ELSE result' = "error" /\ memberships' = memberships
       IN settled \/ ~UpdateMemberRole(actorId, groupId, membershipId, newRole)]_vars

\* A promotion succeeded in a group of two while another group exists: a
\* Membership is admin, which only updateMemberRole makes here.
C17_Witness ==
  /\ result = "ok"
  /\ \E m \in DOMAIN memberships : memberships[m].role = "admin"
  /\ \E g \in DOMAIN groups : Cardinality(MembershipsOf(g)) = 2

(***************************************************************************)
(* The Person of a removed member (SpecRemove).                            *)
(***************************************************************************)
\* C20: a removeMember that deletes a Membership turns the Person of that
\* Membership into a placeholder (no user) when a Quote of the group
\* references it and deletes it otherwise, and neither converts nor deletes
\* any other Person.
C20_RemovedMembersPerson ==
  [][\A actorId \in Users, groupId \in GroupIds, membershipId \in MembershipIds :
       (/\ membershipId \in MembershipsOf(groupId)
        /\ RemoveMember(actorId, groupId, membershipId)
        /\ membershipId \notin DOMAIN memberships')
       => LET personId == memberships[membershipId].personId
              quoted == \E q \in DOMAIN quotes :
                          quotes[q].groupId = groupId /\ quotes[q].personId = personId
          IN /\ personId \in DOMAIN people =>
                  IF quoted
                  THEN /\ personId \in DOMAIN people'
                       /\ people'[personId].userId = NoUser
                       /\ people'[personId].isPlaceholder
                  ELSE personId \notin DOMAIN people'
             /\ \A p \in DOMAIN people \ {personId} :
                  /\ p \in DOMAIN people'
                  /\ people'[p].userId = people[p].userId
                  /\ people'[p].isPlaceholder = people[p].isPlaceholder]_vars

(***************************************************************************)
(* Transfer of ownership and its frame (SpecRoles, SpecFrame).             *)
(***************************************************************************)
\* C18: a transferOwnership that succeeds was called by the owner of the
\* group with two Memberships of the group; after it Group.ownerId is the
\* next owner's user, the Membership that was owner before the call is
\* admin, the next owner's Membership is owner, and the Group ACL grants
\* delete to the new owner and to nobody else.
C18_TransferOwnership ==
  [][\A actorId \in Users, groupId \in GroupIds, cur \in MembershipIds,
        nxt \in MembershipIds :
       (TransferOwnership(actorId, groupId, cur, nxt) /\ result' = "ok")
       => /\ \E o \in OwnersOf(groupId) : memberships[o].userId = actorId
          /\ cur \in MembershipsOf(groupId)
          /\ nxt \in MembershipsOf(groupId)
          /\ groups'[groupId].ownerId = memberships[nxt].userId
          /\ \A o \in OwnersOf(groupId) \ {nxt} : memberships'[o].role = "admin"
          /\ memberships'[nxt].role = "owner"
          /\ Subjects(groups'[groupId].permissions, "delete") =
               {memberships[nxt].userId}]_vars

\* C19: a step of any operation that changes the ownerId of a Group is a
\* successful transferOwnership on that group; join, role change, removal,
\* claim, unclaim, the invite and quote operations and the reconcile leave
\* every Group's ownerId as it was, and no operation deletes a Group.
C19_OnlyTransferChangesOwnerId ==
  [][\A groupId \in DOMAIN groups :
       /\ groupId \in DOMAIN groups'
       /\ groups'[groupId].ownerId # groups[groupId].ownerId =>
            /\ result' = "ok"
            /\ \E actorId \in Users, cur \in MembershipIds, nxt \in MembershipIds :
                 TransferOwnership(actorId, groupId, cur, nxt)]_vars

\* The group has changed hands, after a Quote was made and the first Invite
\* renamed.
C19_Witness ==
  /\ groups[1].ownerId = "u2"
  /\ DOMAIN quotes # {}
  /\ \E i \in DOMAIN invites : invites[i].name = "Party"

(***************************************************************************)
(* Claiming placeholders (SpecClaims).                                     *)
(***************************************************************************)
\* C21: a claimPlaceholder fails and changes no document when the caller
\* has no Membership in the group, the Membership has no personId, the
\* Membership already records a claimed placeholder, or the Person named is
\* not a placeholder of that group (a Person the store does not hold
\* included); and a Membership that records a claim keeps it until it is
\* cleared, so that it never records a second one on top of the first.
C21_ClaimRejected ==
  [][/\ \A actorId \in Users, groupId \in DOMAIN groups,
           placeholderId \in DOMAIN people \cup {nextId.people} :
          LET own == MembershipsOfUser(groupId, actorId)
              unfit ==
                \/ own = {}
                \/ \E m \in own : memberships[m].personId = 0
                \/ \E m \in own : memberships[m].claimedPlaceholderId # 0
                \/ placeholderId \notin DOMAIN people
                \/ people[placeholderId].groupId # groupId
                \/ ~people[placeholderId].isPlaceholder
          IN (unfit /\ ClaimPlaceholder(actorId, groupId, placeholderId))
             => result' = "error" /\ Store' = Store
     /\ \A m \in DOMAIN memberships :
          /\ m \in DOMAIN memberships'
          /\ memberships[m].claimedPlaceholderId # 0 =>
               memberships'[m].claimedPlaceholderId \in
                 {0, memberships[m].claimedPlaceholderId}]_vars

\* A claim was refused in a group whose member holds a claim on a
\* placeholder that an unclaim created, while an older placeholder of the
\* group is still there to be claimed.
C21_Witness ==
  /\ result = "error"
  /\ \E m \in DOMAIN memberships, p \in DOMAIN people :
       /\ people[p].isPlaceholder
       /\ people[p].groupId = memberships[m].groupId
       /\ memberships[m].claimedPlaceholderId > p

\* C22: after a claimPlaceholder of placeholder P by the member with
\* Membership M that succeeds, every Quote of the group that referenced P
\* references M's Person and carries sourcePlaceholderId = P, the Person P
\* is gone, M records claimedPlaceholderId = P and claimedPlaceholderName =
\* the name P had, and every other Quote, Person and Membership is as it
\* was.
C22_ClaimEffect ==
  [][\A actorId \in Users, groupId \in DOMAIN groups, P \in DOMAIN people :
       (ClaimPlaceholder(actorId, groupId, P) /\ result' = "ok")
       => \E M \in MembershipsOfUser(groupId, actorId) :
            /\ DOMAIN quotes' = DOMAIN quotes
            /\ \A q \in DOMAIN quotes :
                 IF quotes[q].groupId = groupId /\ quotes[q].personId = P
                 THEN quotes'[q] = [quotes[q] EXCEPT
                                      !.personId = memberships[M].personId,
                                      !.sourcePlaceholderId = P]
                 ELSE quotes'[q] = quotes[q]
            /\ DOMAIN people' = DOMAIN people \ {P}
            /\ \A x \in DOMAIN people' : people'[x] = people[x]
            /\ DOMAIN memberships' = DOMAIN memberships
            /\ memberships'[M] = [memberships[M] EXCEPT
                                    !.claimedPlaceholderId = P,
                                    !.claimedPlaceholderName = people[P].name]
            /\ \A n \in DOMAIN memberships \ {M} : memberships'[n] = memberships[n]]_vars

\* A claim has just succeeded: the claimed placeholder is gone, a Quote
\* that referenced it is on the claimer's Person and tagged with it, and
\* another Quote of the group, which did not, carries no tag.
C22_Witness ==
  /\ result = "ok"
  /\ \E M \in DOMAIN memberships, q, r \in DOMAIN quotes :
       /\ memberships[M].claimedPlaceholderId # 0
       /\ memberships[M].claimedPlaceholderId \notin DOMAIN people
       /\ quotes[q].sourcePlaceholderId = memberships[M].claimedPlaceholderId
       /\ quotes[q].personId = memberships[M].personId
       /\ quotes[r].groupId = quotes[q].groupId
       /\ quotes[r].sourcePlaceholderId = 0

(***************************************************************************)
(* Claim and unclaim in a row (SpecNames).                                 *)
(***************************************************************************)
\* C23: for a placeholder P of a group and a member M who may claim it, a
\* claim of P by M followed by M's unclaim leaves every Quote that
\* referenced P on one new Person P', a placeholder without user whose
\* name is the name of P; leaves M's Membership without a recorded claim;
\* and leaves every Quote that referenced M's own Person before the claim
\* on M's Person.
C23_ClaimUnclaimRoundTrip ==
  \A actorId \in Users, groupId \in DOMAIN groups, P \in DOMAIN people :
    claimPlaceholderAllowed(Store, actorId, groupId, P) =>
      LET M == getMembershipByUser(Store, groupId, actorId)
          claimed == claimPlaceholder(Store, actorId, groupId, P)
          newId == nextId.people
          after == unclaimPlaceholder(claimed, actorId, groupId, newId)
      IN /\ unclaimPlaceholderAllowed(claimed, actorId, groupId)
         /\ newId \notin DOMAIN people
         /\ newId \in DOMAIN after.people
         /\ after.people[newId].groupId = groupId
         /\ after.people[newId].isPlaceholder
         /\ after.people[newId].userId = NoUser
         /\ after.people[newId].name = people[P].name
         /\ \A q \in DOMAIN quotes :
              /\ quotes[q].groupId = groupId /\ quotes[q].personId = P
                   => after.quotes[q].personId = newId
              /\ quotes[q].groupId = groupId
                   /\ quotes[q].personId = memberships[M].personId
                   => after.quotes[q].personId = memberships[M].personId
         /\ after.memberships[M].claimedPlaceholderId = 0
         /\ after.memberships[M].claimedPlaceholderName = ""

(***************************************************************************)
(* References between the documents of a group (SpecNames, SpecRemove).    *)
(***************************************************************************)
\* C24: after any sequence of completed createQuote,
\* createPlaceholderPerson, claimPlaceholder, unclaimPlaceholder,
\* removeMember, removePerson and joinGroupByCode calls, the personId of
\* every Quote is the id of a Person that exists and belongs to the Quote's
\* group.
C24_QuotePersonExists ==
  \A q \in DOMAIN quotes :
    /\ quotes[q].personId \in DOMAIN people
    /\ people[quotes[q].personId].groupId = quotes[q].groupId

(***************************************************************************)
(* A claim sent again (SpecRetry).                                         *)
(***************************************************************************)
\* C25: a claimPlaceholder request sent again after the first one stopped
\* behind any of its writes succeeds and ends where an uninterrupted claim
\* ends: every Quote that referenced the placeholder is on the claimer's
\* Person, the placeholder is deleted, and the Membership records the
\* claim.
C25_RetryCompletes ==
  \A p \in Procs :
    /\ calls[p].pc # "refused"
    /\ calls[p].pc = "retried" =>
         LET M == getMembershipByUser(Store, calls[p].groupId, calls[p].actorId)
         IN /\ \A q \in calls[p].listed : quotes[q].personId = memberships[M].personId
            /\ calls[p].placeholder \notin DOMAIN people
            /\ memberships[M].claimedPlaceholderId = calls[p].placeholder

(***************************************************************************)
(* The dispatcher (SpecDispatch).                                          *)
(***************************************************************************)
\* C26: a request whose headers name no user, or an empty one, is answered
\* with an error before a document-store client is constructed: it reaches
\* none of the handlers and no document is written.  Only a call that has
\* an actor and a client is ever at a handler, and only then does the store
\* change.
C26_ActorRequired ==
  /\ [](\A p \in DispatchProcs :
          /\ calls[p].pc = "handler" =>
               /\ calls[p].actorId # NoUser
               /\ calls[p].client
               /\ calls[p].action \in handlers
          /\ calls[p].pc = "responded" /\ calls[p].actorId = NoUser =>
               ~calls[p].client /\ calls[p].status \in {400, 500})
  /\ [][/\ (Store' # Store \/ nextId' # nextId) =>
             \E p \in DispatchProcs :
               /\ calls[p].pc = "handler"
               /\ calls[p].actorId # NoUser
               /\ calls[p].client
        /\ \A p \in DispatchProcs, headers \in RequestHeaders, action \in RequestedActions :
             LET anonymous ==
                   \A i \in 1..Len(headers) :
                     toLowerCase(headers[i][1]) = "x-appwrite-user-id" => headers[i][2] = ""
             IN (anonymous /\ DispatchRequest(p, headers, action))
                => /\ result' = "error"
                   /\ calls'[p].pc = "responded"
                   /\ ~calls'[p].client
                   /\ calls'[p].status \in {400, 500}
                   /\ Store' = Store]_vars

\* A request without an actor has just been refused with status 500 and no
\* client, on a store that an earlier request with an actor has filled.
C26_Witness ==
  \E p \in DispatchProcs :
    /\ calls[p].pc = "responded"
    /\ calls[p].actorId = NoUser
    /\ calls[p].status = 500
    /\ ~calls[p].client
    /\ calls[p].started >= 2
    /\ result = "error"
    /\ DOMAIN quotes # {}

(***************************************************************************)
(* Rights after a role change (SpecMembers).                               *)
(***************************************************************************)
\* C27: after an updateMemberRole that succeeds, its reconciliation
\* included, the user of the target Membership may update the Group
\* document, and delete every Quote and every Invite of the group, if and
\* only if the new role is admin.
C27_RoleRights ==
  [][\A actorId \in Users, groupId \in DOMAIN groups,
        membershipId \in DOMAIN memberships, newRole \in RequestedRoles :
       \/ result' # "ok"
       \/ ~updateMemberRoleAllowed(Store, actorId, groupId, membershipId, newRole)
       \/ ~UpdateMemberRole(actorId, groupId, membershipId, newRole)
       \/ LET target == memberships[membershipId].userId
              granted(doc, action) == target \in Subjects(doc.permissions, action)
          IN /\ memberships'[membershipId].role = newRole
             /\ granted(groups'[groupId], "update") <=> newRole = "admin"
             /\ \A q \in DOMAIN quotes' :
                  quotes'[q].groupId = groupId =>
                    (granted(quotes'[q], "delete") <=> newRole = "admin")
             /\ \A i \in DOMAIN invites' :
                  invites'[i].groupId = groupId =>
                    (granted(invites'[i], "delete") <=> newRole = "admin")]_vars

\* A member who joined has been promoted: the group has a Quote and an
\* Invite, and the admin may update the Group and delete both, while
\* another member of the group may do neither.
C27_Witness ==
  /\ result = "ok"
  /\ \E m \in DOMAIN memberships, n \in DOMAIN memberships, q \in DOMAIN quotes,
        i \in DOMAIN invites :
       /\ memberships[m].role = "admin"
       /\ memberships[n].role = "member"
       /\ memberships[n].groupId = memberships[m].groupId
       /\ quotes[q].groupId = memberships[m].groupId
       /\ invites[i].groupId = memberships[m].groupId
       /\ memberships[m].userId \in Subjects(groups[memberships[m].groupId].permissions, "update")
       /\ memberships[m].userId \in Subjects(quotes[q].permissions, "delete")
       /\ memberships[m].userId \in Subjects(invites[i].permissions, "delete")
       /\ memberships[n].userId \notin Subjects(groups[memberships[m].groupId].permissions, "update")
       /\ memberships[n].userId \notin Subjects(quotes[q].permissions, "delete")

(***************************************************************************)
(* A reconcile that fails half-way (SpecSyncFail).                         *)
(***************************************************************************)
\* C28: when an update of a reconcile fails, the request is answered with
\* the error; the documents written are those that needed an update and are
\* visited before the one that failed, and they carry their policy ACL; the
\* document that failed and every document after it are as they were.  The
\* reconcile that follows and meets no failure succeeds and leaves every
\* document of the group with its policy ACL.
C28_FailFastAndResume ==
  /\ [][\A p \in FailProcs :
          calls[p].pc # "failed" /\ calls'[p].pc = "failed" =>
            LET g == calls'[p].groupId
                f == calls'[p].failed
                order == syncOrder(Store, g)
                pos(d) == CHOOSE i \in 1..Len(order) : order[i] = d
                policy(d) == policyPermissions(Store, g, d[1], d[2])
                stale(d) == ~permissionsEqual(Store[d[1]][d[2]].permissions, policy(d))
            IN /\ result' = "error"
               /\ f \in groupDocuments(Store, g)
               /\ stale(f)
               /\ \A d \in groupDocuments(Store, g) :
                    IF pos(d) < pos(f) /\ stale(d)
                    THEN /\ d \in writes'
                         /\ (Store')[d[1]][d[2]] =
                              [Store[d[1]][d[2]] EXCEPT !.permissions = policy(d)]
                    ELSE /\ d \notin writes'
                         /\ (Store')[d[1]][d[2]] = Store[d[1]][d[2]]
               /\ writes' \subseteq groupDocuments(Store, g)
               /\ \A kind \in DOMAIN Store : DOMAIN (Store')[kind] = DOMAIN Store[kind]]_vars
  /\ [](\A p \in FailProcs :
          calls[p].pc = "resumed" =>
            /\ result = "ok"
            /\ \A d \in groupDocuments(Store, calls[p].groupId) :
                 permissionsEqual(Store[d[1]][d[2]].permissions,
                                  policyPermissions(Store, calls[p].groupId, d[1], d[2])))

\* A reconcile has failed at a Person after it rewrote the Group and a
\* Membership, and a Quote it did not come to still has a stale ACL.
C28_Witness ==
  \E p \in FailProcs :
    /\ calls[p].pc = "failed"
    /\ result = "error"
    /\ calls[p].failed[1] = "people"
    /\ <<"groups", calls[p].groupId>> \in writes
    /\ \E m \in DOMAIN memberships : <<"memberships", m>> \in writes
    /\ \E q \in DOMAIN quotes :
         /\ quotes[q].groupId = calls[p].groupId
         /\ ~permissionsEqual(quotes[q].permissions,
                              policyPermissions(Store, calls[p].groupId, "quotes", q))

(***************************************************************************)
(* Reconciles that overlap (SpecRace).                                     *)
(***************************************************************************)
\* C29: when the joins and role changes on a group have all completed, each
\* with its own reconcile, every document of the group carries the policy
\* ACL of the roster as it is then, however the calls interleaved.
C29_ConcurrentReconcile ==
  (\A p \in Procs : calls[p].pc \in {"idle", "done"}) =>
    \A groupId \in DOMAIN groups :
      \A d \in groupDocuments(Store, groupId) :
        permissionsEqual(Store[d[1]][d[2]].permissions,
                         policyPermissions(Store, groupId, d[1], d[2]))

(***************************************************************************)
(* Members and their Persons (SpecFrame).                                  *)
(***************************************************************************)
\* C30: after any sequence of completed operations, every Membership of a
\* group references a Person of the group that exists, is no placeholder
\* and has the Membership's userId, and every Person of the group that is
\* no placeholder is referenced by exactly one Membership of the group.
C30_PersonPerMembership ==
  \A groupId \in DOMAIN groups :
    /\ \A m \in MembershipsOf(groupId) :
         /\ memberships[m].personId \in DOMAIN people
         /\ people[memberships[m].personId].groupId = groupId
         /\ ~people[memberships[m].personId].isPlaceholder
         /\ people[memberships[m].personId].userId = memberships[m].userId
    /\ \A p \in DOMAIN people :
         people[p].groupId = groupId /\ ~people[p].isPlaceholder =>
           Cardinality({m \in MembershipsOf(groupId) : memberships[m].personId = p}) = 1

(***************************************************************************)
(* Refusals (SpecFrame).                                                   *)
(***************************************************************************)
\* C31: a call whose actor lacks the role the operation requires for the
\* target it names (membership for quotes, placeholders and claims; admin
\* for invites, deletions, promotions, reconciles and the removal of
\* another member; owner for demotions, transfers and the removal of an
\* admin) returns an error and leaves every document as it was.
C31_ForbiddenChangesNothing ==
  [][LET held(groupId, actorId) ==
           LET own == getMembershipByUser(Store, groupId, actorId)
           IN IF own = 0 THEN "none" ELSE memberships[own].role
         isMember(groupId, actorId) == held(groupId, actorId) # "none"
         isAdmin(groupId, actorId) == held(groupId, actorId) \in {"admin", "owner"}
         isOwner(groupId, actorId) == held(groupId, actorId) = "owner"
         refused == result' = "error" /\ Store' = Store
     IN \A actorId \in FrameUsers, groupId \in GroupIds :
          /\ isAdmin(groupId, actorId) \/ refused \/ ~CreateInvite(actorId, groupId)
          /\ isAdmin(groupId, actorId) \/ refused \/ ~SyncGroupPermissions(actorId, groupId)
          /\ isMember(groupId, actorId) \/ refused \/ ~UnclaimPlaceholder(actorId, groupId)
          /\ \A name \in PlaceholderNames :
               isMember(groupId, actorId) \/ refused
                 \/ ~CreatePlaceholderPerson(actorId, groupId, name)
          /\ \A inviteId \in DOMAIN invites :
               \/ invites[inviteId].groupId # groupId
               \/ isAdmin(groupId, actorId)
               \/ refused
               \/ /\ ~DeleteInvite(actorId, inviteId)
                  /\ \A name \in InviteNames : ~RenameInvite(actorId, inviteId, name)
          /\ \A personId \in PersonIds :
               /\ isMember(groupId, actorId) \/ refused
                    \/ ~CreateQuote(actorId, groupId, personId)
               /\ isMember(groupId, actorId) \/ refused
                    \/ ~ClaimPlaceholder(actorId, groupId, personId)
               /\ \A force \in BOOLEAN :
                    isAdmin(groupId, actorId) \/ refused
                      \/ ~RemovePerson(actorId, groupId, personId, force)
          /\ \A quoteId \in QuoteIds :
               isAdmin(groupId, actorId) \/ refused \/ ~DeleteQuote(actorId, groupId, quoteId)
          /\ \A membershipId \in DOMAIN memberships :
               /\ \A newRole \in {"admin", "member"} :
                    \/ IF newRole = "admin" THEN isAdmin(groupId, actorId)
                       ELSE isOwner(groupId, actorId)
                    \/ refused
                    \/ ~UpdateMemberRole(actorId, groupId, membershipId, newRole)
               /\ \A cur \in DOMAIN memberships :
                    isOwner(groupId, actorId) \/ refused
                      \/ ~TransferOwnership(actorId, groupId, cur, membershipId)
               /\ \/ memberships[membershipId].userId = actorId /\ isMember(groupId, actorId)
                  \/ /\ isAdmin(groupId, actorId)
                     /\ memberships[membershipId].role = "admin" => isOwner(groupId, actorId)
                  \/ refused
                  \/ ~RemoveMember(actorId, groupId, membershipId)]_vars

(***************************************************************************)
(* A transfer sent again (SpecTransferRetry).                              *)
(***************************************************************************)
\* C32: when a transferOwnership of the owner to another member has stopped
\* after none, one, two or all three of its writes, the same request sent
\* again by the same actor succeeds, and afterwards the next owner's
\* Membership is the only one with role owner and Group.ownerId is that
\* member's userId.
C32_TransferRetryCompletes ==
  \A p \in Procs :
    (/\ calls[p].pc \in {"retried", "refused"}
     /\ memberships[calls[p].currentOwner].userId = calls[p].actorId
     /\ calls[p].nextOwner # calls[p].currentOwner)
    => /\ calls[p].pc = "retried"
       /\ result = "ok"
       /\ OwnersOf(calls[p].groupId) = {calls[p].nextOwner}
       /\ groups[calls[p].groupId].ownerId = memberships[calls[p].nextOwner].userId

(***************************************************************************)
(* An unclaim sent again (SpecUnclaimRetry).                               *)
(***************************************************************************)
\* C33: when an unclaimPlaceholder has stopped after it created the new
\* placeholder and before it cleared the claim, and is sent again, the
\* request succeeds and the group then holds exactly one placeholder made
\* for this unclaim: it is referenced by every Quote tagged with the claimed
\* placeholder, and no second, quote-less placeholder is left.
C33_UnclaimRetryNoDuplicate ==
  \A p \in Procs :
    calls[p].pc \in {"retried", "refused"} /\ calls[p].placeholder # 0 =>
      LET made == {x \in DOMAIN people : x >= calls[p].placeholder}
      IN /\ calls[p].pc = "retried"
         /\ Cardinality(made) = 1
         /\ \A x \in made :
              /\ people[x].isPlaceholder
              /\ people[x].groupId = calls[p].groupId
              /\ \A q \in calls[p].listed : quotes[q].personId = x

(***************************************************************************)
(* Removal of a placeholder (SpecRemovePerson).                            *)
(***************************************************************************)
\* C34: a Person is deleted only in a removePerson of an admin of the group
\* it belongs to, only when it is a placeholder, and only when no Quote
\* references it any longer; a removePerson without force on a placeholder
\* that has quotes fails and deletes nothing, and one with force has
\* deleted every Quote that referenced the Person when the Person goes.
C34_RemovePersonOrder ==
  /\ [](\A q \in DOMAIN quotes : quotes[q].personId \in DOMAIN people)
  /\ [][/\ \A x \in DOMAIN people \ DOMAIN people' :
             \E p \in Procs :
               /\ calls[p].pc = "removing"
               /\ calls[p].placeholder = x
               /\ ensureAdmin(Store, getMembershipByUser(Store, calls[p].groupId,
                                                         calls[p].actorId))
               /\ people[x].groupId = calls[p].groupId
               /\ people[x].isPlaceholder
               /\ calls[p].listed # {} => calls[p].force
               /\ calls[p].listed \cap DOMAIN quotes' = {}
               /\ \A q \in DOMAIN quotes' : quotes'[q].personId # x
        /\ \A q \in DOMAIN quotes \ DOMAIN quotes' :
             \E p \in Procs :
               /\ calls[p].pc = "removing"
               /\ calls[p].force
               /\ quotes[q].personId = calls[p].placeholder
        /\ \A p \in Procs, actorId \in Users, groupId \in DOMAIN groups,
              personId \in DOMAIN people :
             (/\ quotesOfPerson(Store, groupId, personId) # {}
              /\ RemovePersonBegin(p, actorId, groupId, personId, FALSE))
             => result' = "error" /\ Store' = Store /\ calls'[p].pc = "idle"]_vars

\* A forced removePerson of a placeholder that two Quotes referenced has
\* ended: the Person and both Quotes are gone.
C34_Witness ==
  \E p \in Procs :
    /\ calls[p].pc = "removed"
    /\ calls[p].force
    /\ Cardinality(calls[p].listed) >= 2
    /\ calls[p].placeholder \notin DOMAIN people
    /\ calls[p].listed \cap DOMAIN quotes = {}
    /\ result = "ok"

(***************************************************************************)
(* Joins that overlap (SpecJoins).                                         *)
(***************************************************************************)
\* C35: once the joins in flight have all returned, two joins of one user
\* that both passed the lookup of the existing Membership included, a user
\* has at most one Membership in a group, and the group holds exactly as
\* many Persons of that user as Memberships: the call that lost leaves no
\* Person behind.
C35_ConcurrentJoinLeavesOnePerson ==
  (\A p \in Procs : calls[p].pc \in Resting) =>
    \A groupId \in DOMAIN groups, userId \in Users :
      LET own == {m \in MembershipsOf(groupId) : memberships[m].userId = userId}
          profiles == {x \in DOMAIN people : /\ people[x].groupId = groupId
                                             /\ people[x].userId = userId
                                             /\ ~people[x].isPlaceholder}
      IN /\ Cardinality(own) <= 1
         /\ Cardinality(profiles) = Cardinality(own)

(***************************************************************************)
(* Quotes and claims that overlap (SpecClaimRace).                         *)
(***************************************************************************)
\* C36: once the calls in flight have returned, a createQuote that
\* overlapped a claimPlaceholder of the Person it names included, every
\* Quote references a Person the store holds.
C36_QuoteNeverPointsAtClaimedPerson ==
  (\A p \in Procs : calls[p].pc \in Resting) =>
    \A q \in DOMAIN quotes : quotes[q].personId \in DOMAIN people

\* C37: once the calls in flight have returned, two claims of one
\* placeholder that overlapped included, at most one Membership records the
\* claim of a placeholder and every Quote moved from that placeholder is on
\* the Person of the Membership that records the claim.
C37_OneClaimOwnsTheQuotes ==
  (\A p \in Procs : calls[p].pc \in Resting) =>
    \A placeholderId \in 1..MaxPeople :
      LET claimants == {m \in DOMAIN memberships :
                          memberships[m].claimedPlaceholderId = placeholderId}
      IN /\ Cardinality(claimants) <= 1
         /\ \A q \in DOMAIN quotes :
              quotes[q].sourcePlaceholderId = placeholderId =>
                \E m \in claimants : quotes[q].personId = memberships[m].personId

(***************************************************************************)
(* What a removed member can still touch (SpecRemove).                     *)
(***************************************************************************)
\* C38: after a removeMember by an admin about another user's Membership, or
\* by a user about their own, has passed the checks and returned ok, the
\* removed user is the subject of no read, update or delete permission
\* of the Group or of a Membership, Person, Quote or Invite of the group,
\* the Person turned into a placeholder included.
C38_RemovedUserHoldsNoPermission ==
  [][\A actorId \in Users, groupId \in GroupIds, membershipId \in MembershipIds :
       \/ nextId' # nextId
       \/ result' # "ok"
       \/ membershipId \notin DOMAIN memberships
       \/ memberships[membershipId].groupId # groupId
       \/ ~(\/ memberships[membershipId].userId = actorId
            \/ ensureAdmin(Store, getMembershipByUser(Store, groupId, actorId)))
       \/ ~removeMemberAllowed(Store, actorId, groupId, membershipId)
       \/ ~RemoveMember(actorId, groupId, membershipId)
       \/ \A d \in groupDocuments(Store', groupId) :
            \A action \in {"read", "update", "delete"} :
              memberships[membershipId].userId
                \notin Subjects(Store'[d[1]][d[2]].permissions, action)]_vars

\* A member whom a quote is about has been removed: the Person is now a
\* placeholder and the group has fewer Memberships than were created.
C38_Witness ==
  /\ result = "ok"
  /\ \E x \in DOMAIN people : people[x].isPlaceholder /\ people[x].groupId = 1
  /\ \E q \in DOMAIN quotes : quotes[q].personId \in DOMAIN people
                              /\ people[quotes[q].personId].isPlaceholder
  /\ Cardinality(DOMAIN memberships) < nextId.memberships - 1
  /\ 1 \in DOMAIN memberships
  /\ memberships[1].role = "owner"

(***************************************************************************)
(* The ownerId field and the owner role (SpecRoles).                       *)
(***************************************************************************)
\* C39: after every completed operation a group has a Membership with role
\* owner, and the userId of each Membership with role owner is the ownerId
\* of the Group.
C39_OwnerIdIsTheOwner ==
  \A groupId \in DOMAIN groups :
    /\ OwnersOf(groupId) # {}
    /\ \A m \in OwnersOf(groupId) : memberships[m].userId = groups[groupId].ownerId

(***************************************************************************)
(* The ACL a document is created with (SpecBorn).                          *)
(***************************************************************************)
\* C40: when createGroupWithOwner, createInvite, createPlaceholderPerson,
\* createQuote or unclaimPlaceholder returns ok on a group whose documents
\* all carry their policy ACL (for createGroupWithOwner: on the group it
\* creates), a reconcile of that group run next finds no document to
\* rewrite.
C40_BornWithPolicyAcl ==
  [][/\ \A actorId \in FrameUsers :
          \/ result' # "ok"
          \/ nextId'.groups = nextId.groups
          \/ ~CreateGroupWithOwner(actorId)
          \/ syncGroupPermissionsInternal(Store', nextId.groups, actorId, FALSE).writes = {}
     /\ \A actorId \in FrameUsers, groupId \in DOMAIN groups :
          \/ result' # "ok"
          \/ nextId' = nextId
          \/ syncGroupPermissionsInternal(Store, groupId, actorId, FALSE).writes # {}
          \/ ~(\/ CreateInvite(actorId, groupId)
               \/ \E name \in PlaceholderNames :
                    CreatePlaceholderPerson(actorId, groupId, name)
               \/ \E personId \in DOMAIN people : CreateQuote(actorId, groupId, personId)
               \/ UnclaimPlaceholder(actorId, groupId))
          \/ syncGroupPermissionsInternal(Store', groupId, actorId, FALSE).writes = {}]_vars

\* A group created by its owner with a second invite, a second member, a
\* quote about a placeholder, and an unclaim that moved the quote to the
\* placeholder it created, where a reconcile finds nothing to rewrite.
C40_Witness ==
  /\ result = "ok"
  /\ 1 \in DOMAIN groups
  /\ nextId.invites > 2
  /\ \E q \in DOMAIN quotes : /\ quotes[q].sourcePlaceholderId # 0
                              /\ quotes[q].personId \in DOMAIN people
                              /\ people[quotes[q].personId].isPlaceholder
  /\ Cardinality(MembershipsOf(1)) = 2
  /\ syncGroupPermissionsInternal(Store, 1, "u1", FALSE).writes = {}
====
